---------------------------- MODULE Spec2Model ----------------------------
(* Model of the projector's VbucketWorker (secondary/projector/worker.go):  *)
(* one goroutine (run) owning the vbuckets, engines and endpoints maps,     *)
(* fed by the buffered channels sbch (commands) and datach (events and      *)
(* sync pulses), and signalling its end by closing finch; and of the       *)
(* consolidation of index statuses by the indexer's status handler.        *)
EXTENDS Integers, Sequences, FiniteSets, TLC

(***************************************************************************)
(* Bounds of the model and the small value sets the inputs are drawn from. *)
(***************************************************************************)
\* events and sync pulses the feed submits in one behaviour
MaxEvents == 3
\* control calls the supervisor makes in one behaviour
MaxCmds == 2
\* control calls the supervisor makes while the handling of events is explored
\* or a second caller calls
MaxFewCmds == 1
\* events and sync pulses the feed submits while the control calls are explored
MaxFewEvents == 2
\* entries of the list of statuses that is consolidated
MaxStatuses == 2
\* the index instances the statuses are of
InstIds == {1, 2}
\* config["mutationChanSize"], the capacity of sbch and of datach: the two
\* configurations explored
mutChanSize == 2
mutChanSizeOne == 1

Vbs == {1, 2}
Opaques == {1, 2}
VBuuids == {1, 2}
Seqnos == {1, 2}
Cids == {1, 2}
Addrs == {"A", "B"}
EngineIds == {1, 2, 3}
\* the callers of the synchronous operations
Clients == {"sup", "closer"}

\* Engine objects: GetCollectionID() and Endpoints() of each instance id.
\* Engine 4, of collection 1, sends to both addresses: it shares the sink A
\* with engine 1; the supervisor installs it in SpecShared only.
EngineCid(id) == IF id = 3 THEN 2 ELSE 1
EngineEndpoints(id) == IF id = 4 THEN {"A", "B"} ELSE IF id = 2 THEN {"B"} ELSE {"A"}

VARIABLES
    vbuckets,   \* worker.vbuckets: vbno -> Vbucket, the Open shards
    engines,    \* worker.engines: cid -> set of instance ids
    endpoints,  \* worker.endpoints: the addresses in the endpoint table
    sbch,       \* command channel
    datach,     \* data channel
    respch,     \* per caller: its single-slot response channel
    finch,      \* TRUE once close(worker.finch) ran
    closed,     \* worker.stats.closed
    pc,         \* position of run(): "top", "wait", "defer", "fin", "setclosed",
                \* "stopped", or "exited" after os.Exit
    recovered,  \* TRUE when the deferred function of run() recovered a panic
    waiting,    \* per caller: blocked in FailsafeOp after posting its command
    ret,        \* per caller and for the feed: what its last call returned
    nEvents,    \* messages submitted to datach so far
    nCmds,      \* commands posted by the supervisor so far
    out,        \* the broadcasts and deliveries made by the step just taken
    errlog,     \* the error lines logged by the step just taken
    candidates, \* the latest non-nil endpoints argument of an AddEngines handled
    evicted,    \* addresses whose Send failed and that no AddEngines has put back
    endCount,   \* per shard: StreamEnd broadcasts since its last accepted StreamBegin
    endedSeqno, \* per shard: the seqno its last incarnation had when its StreamEnd
                \* event was handled (0: no StreamEnd event was handled for it)
    statuses,   \* consolideIndexStatus: the entries of statuses not yet ranged over
    statusMap,  \* consolideIndexStatus: statusMap, InstId -> IndexStatus
    dataSince,  \* data-queue messages dequeued while the current head of sbch waited
    pendingAtTop, \* commands that were queued when this iteration of the loop began
                \* and that the iteration has not handled
    queuedBefore \* messages that were in datach when the supervisor made its call
                \* and that were still there when its command was handled

vars == <<vbuckets, engines, endpoints, sbch, datach, respch, finch, closed, pc,
          recovered, waiting, ret, nEvents, nCmds, out, errlog, candidates, evicted,
          endCount, dataSince, pendingAtTop, queuedBefore, endedSeqno,
          statuses, statusMap>>

(***************************************************************************)
(* Messages.                                                               *)
(***************************************************************************)
NoEvent == [Opcode |-> "NONE", VBucket |-> 0, Opaque |-> 0, VBuuid |-> 0,
            Seqno |-> 0, Status |-> "SUCCESS", CollectionID |-> 0]

MutationOps == {"DCP_MUTATION", "DCP_DELETION", "DCP_EXPIRATION"}
SeqnoOps == MutationOps \cup {"DCP_SYSTEM_EVENT", "DCP_SEQNO_ADVANCED"}

\* The events the feed may hand to Event(): fields an opcode's handler never
\* reads are held at one value (the vbuuid is read from a StreamRequest only).
StreamReqEvents ==
    {[Opcode |-> "DCP_STREAMREQ", VBucket |-> vb, Opaque |-> o, VBuuid |-> u,
      Seqno |-> s, Status |-> st, CollectionID |-> 0] :
        vb \in Vbs, o \in Opaques, u \in VBuuids, s \in Seqnos,
        st \in {"SUCCESS", "FAILURE"}}
MutationEvents ==
    {[Opcode |-> "DCP_MUTATION", VBucket |-> vb, Opaque |-> o, VBuuid |-> 1,
      Seqno |-> s, Status |-> "SUCCESS", CollectionID |-> c] :
        vb \in Vbs, o \in Opaques, s \in Seqnos, c \in Cids}
SeqnoEvents ==
    {[Opcode |-> op, VBucket |-> vb, Opaque |-> o, VBuuid |-> 1,
      Seqno |-> s, Status |-> "SUCCESS", CollectionID |-> 0] :
        op \in {"DCP_SYSTEM_EVENT", "DCP_SEQNO_ADVANCED"},
        vb \in Vbs, o \in Opaques, s \in Seqnos}
SnapshotEvents ==
    {[Opcode |-> op, VBucket |-> vb, Opaque |-> o, VBuuid |-> 1,
      Seqno |-> 1, Status |-> "SUCCESS", CollectionID |-> 0] :
        op \in {"DCP_SNAPSHOT", "DCP_OSO_SNAPSHOT"}, vb \in Vbs, o \in Opaques}
StreamEndEvents ==
    {[Opcode |-> "DCP_STREAMEND", VBucket |-> vb, Opaque |-> o, VBuuid |-> 1,
      Seqno |-> 1, Status |-> "SUCCESS", CollectionID |-> 0] :
        vb \in Vbs, o \in Opaques}
AllEvents ==
    StreamReqEvents \cup MutationEvents \cup SeqnoEvents \cup SnapshotEvents
        \cup StreamEndEvents

\* The events of shard vb.
EventsOf(vb) == {m \in AllEvents : m.VBucket = vb}
\* The events of a shard whose stream runs without anomaly: one opaque, one
\* vbuuid, one collection.
PlainEventsOf(vb) ==
    {m \in EventsOf(vb) :
        /\ m.Opcode \in {"DCP_STREAMREQ", "DCP_MUTATION", "DCP_STREAMEND"}
        /\ m.Opaque = 1 /\ m.VBuuid = 1 /\ m.Status = "SUCCESS"
        /\ m.CollectionID \in {0, 1}
        /\ m.Seqno = (IF m.Opcode = "DCP_MUTATION" THEN 2 ELSE 1)}

\* The events the feed submits while the handling of events is explored:
\* the events of one shard, of every opcode.  A stream begins with opaque 1
\* and vbuuid 1 at either seqno, or with opaque 2 and vbuuid 2; mutations
\* carry seqno 2 and the other events seqno 1; a mutation and a StreamEnd
\* come with either opaque.
FeedEvents ==
    {m \in EventsOf(1) :
        /\ m.Opcode = "DCP_STREAMREQ" =>
              IF m.Status = "SUCCESS"
              THEN <<m.Opaque, m.VBuuid, m.Seqno>> \in
                      {<<1, 1, 1>>, <<1, 1, 2>>, <<2, 2, 1>>}
              ELSE <<m.Opaque, m.VBuuid, m.Seqno>> = <<1, 1, 1>>
        /\ m.Opcode = "DCP_MUTATION" =>
              m.Seqno = 2 /\ <<m.Opaque, m.CollectionID>> # <<2, 2>>
        /\ m.Opcode \in {"DCP_SYSTEM_EVENT", "DCP_SEQNO_ADVANCED", "DCP_SNAPSHOT",
                          "DCP_OSO_SNAPSHOT"} =>
              m.Seqno = 1 /\ m.Opaque = 1}
\* The events of two shards, with one whose opaque is not the streams' own.
TwoShardEvents ==
    PlainEventsOf(1) \cup PlainEventsOf(2)
       \cup {m \in MutationEvents :
                m.VBucket = 1 /\ m.Opaque = 2 /\ m.Seqno = 2 /\ m.CollectionID = 1}
\* The few events the feed submits while the control operations are explored.
FewEvents ==
    PlainEventsOf(1)
       \cup {m \in MutationEvents : m.VBucket = 1 /\ m.Opaque = 1 /\ m.VBuuid = 1 /\ m.Seqno = 2}


DataMsg(cmd, m) == [cmd |-> cmd, m |-> m]

\* A command: engs/eps are the arguments of AddEngines, keys/cids those of
\* DeleteEngines.  eps = {"nil"} stands for msg[3] == nil, which AddEngines
\* never sends: it stores its map argument in the message, and a nil map
\* stored in an interface value is not nil; it is an empty candidate set.
Cmd(cmd, from, engs, eps, keys, cids) ==
    [cmd |-> cmd, from |-> from, engs |-> engs, eps |-> eps, keys |-> keys, cids |-> cids]
SimpleCmd(cmd, from) == Cmd(cmd, from, {}, {}, <<>>, <<>>)
NilEps == {"nil"}

NoResp == [kind |-> "none", vbs |-> <<>>, seqnos |-> <<>>, stats |-> <<>>]


(***************************************************************************)
(* Go maps as functions whose domain is the set of keys present.           *)
(***************************************************************************)
MapDel(f, k) == [x \in DOMAIN f \ {k} |-> f[x]]
MapPut(f, k, v) == [x \in DOMAIN f \cup {k} |-> IF x = k THEN v ELSE f[x]]
EmptyMap == [x \in {} |-> 0]

(***************************************************************************)
(* The index status handler (requestHandlerContext): the status string of  *)
(* an index instance on a node and its consolidation across nodes.  A      *)
(* string is the sequence of its words.                                    *)
(***************************************************************************)
\* strings.HasPrefix
HasPrefix(s, prefix) == Len(s) >= Len(prefix) /\ SubSeq(s, 1, Len(prefix)) = prefix

\* The index states that pass the test on CREATED, DELETED and NIL, the
\* rebalance states, the storage modes and the indexer_state statistic
\* ("": the statistic is missing) of an instance on a node.
IndexStates ==
    {"INDEX_STATE_READY", "INDEX_STATE_INITIAL", "INDEX_STATE_CATCHUP",
     "INDEX_STATE_ACTIVE", "INDEX_STATE_ERROR"}
RStates == {"REBAL_ACTIVE", "REBAL_PENDING"}
OldStorageModes == {"", "forestdb", "plasma"}
StorageModes == {"forestdb", "plasma"}
IndexerStates == {"", "Active", "Paused", "Bootstrap", "Warmup"}
ErrStrs == {"", "err"}

\* getIndexStatus: stateStr of one instance, as the chain of assignments
\* leaves it
StateStr(state, rstate, oldStorageMode, storageMode, indexerState, errStr) ==
    LET byState ==
            CASE state = "INDEX_STATE_READY" -> <<"Created">>
              [] state = "INDEX_STATE_INITIAL" -> <<"Building">>
              [] state = "INDEX_STATE_CATCHUP" -> <<"Building">>
              [] state = "INDEX_STATE_ACTIVE" -> <<"Ready">>
              [] OTHER -> <<"Not", "Available">>
        byRebal ==
            IF rstate = "REBAL_PENDING" /\ state # "INDEX_STATE_READY"
            THEN <<"Replicating">>
            ELSE byState
        byMode(base) ==
            IF oldStorageMode = "forestdb" /\ storageMode = "plasma"
            THEN <<base, "(Upgrading)">>
            ELSE IF storageMode = "forestdb" /\ oldStorageMode = "plasma"
                 THEN <<base, "(Downgrading)">>
                 ELSE byRebal
        byStorage ==
            IF oldStorageMode = ""
            THEN byRebal
            ELSE IF state \in {"INDEX_STATE_INITIAL", "INDEX_STATE_CATCHUP"}
                 THEN byMode("Building")
                 ELSE IF state = "INDEX_STATE_READY"
                      THEN byMode("Created")
                      ELSE byRebal
        byIndexer ==
            IF indexerState = "Paused"
            THEN <<"Paused">>
            ELSE IF indexerState \in {"Bootstrap", "Warmup"}
                 THEN <<"Warmup">>
                 ELSE byStorage
    IN  IF errStr # "" THEN <<"Error">> ELSE byIndexer

\* The status strings getIndexStatus gives to the instances it lists.
StatusStrs ==
    {StateStr(st, rs, om, sm, is, er) :
        st \in IndexStates, rs \in RStates, om \in OldStorageModes,
        sm \in StorageModes, is \in IndexerStates, er \in ErrStrs}

\* consolideStateStr
ConsolideStateStr(str1, str2) ==
    IF str1 = <<"Paused">> \/ str2 = <<"Paused">>
    THEN <<"Paused">>
    ELSE IF str1 = <<"Warmup">> \/ str2 = <<"Warmup">>
    THEN <<"Warmup">>
    ELSE IF HasPrefix(str1, <<"Created">>) \/ HasPrefix(str2, <<"Created">>)
    THEN (IF str1 = str2 THEN str1 ELSE <<"Created">>)
    ELSE IF HasPrefix(str1, <<"Building">>) \/ HasPrefix(str2, <<"Building">>)
    THEN (IF str1 = str2 THEN str1 ELSE <<"Building">>)
    ELSE IF str1 = <<"Replicating">> \/ str2 = <<"Replicating">>
    THEN <<"Replicating">>
    ELSE str1

\* IndexStatus, with the two fields the consolidation of the status reads.
IndexStatus(instId, status) == [InstId |-> instId, Status |-> status]

\* The lists getIndexStatus hands to consolideIndexStatus: one entry for each
\* node that hosts a partition of an instance.
StatusLists ==
    UNION {[1..n -> {IndexStatus(i, s) : i \in InstIds, s \in StatusStrs}] :
              n \in 0..MaxStatuses}

\* The orders in which a range loop may visit the keys of a map.
Orders(S) ==
    {s \in [1..Cardinality(S) -> S] : \A i, j \in 1..Cardinality(S) : i # j => s[i] # s[j]}

(***************************************************************************)
(* Vbucket (its constructor and its make...Data methods live outside       *)
(* worker.go; they are modelled from the design text).                     *)
(***************************************************************************)
NewVbucket(opaque, vbno, vbuuid, seqno) ==
    [vbno |-> vbno, opaque |-> opaque, vbuuid |-> vbuuid, seqno |-> seqno,
     syncCount |-> 0, sshotCount |-> 0, mutationCount |-> 0]

\* v.make<kind>Data(worker.engines) # nil: the signal of each kind is published.
MakeData(kind, engs) == TRUE

(***************************************************************************)
(* Broadcast and delivery.  A record of out is one broadcast or delivery:  *)
(* the addresses Send was invoked on, those whose Send failed, and the     *)
(* engines whose transform was invoked.                                    *)
(***************************************************************************)
Bc(kind, vb, sent, failed, xf) ==
    [kind |-> kind, vb |-> vb, sent |-> sent, failed |-> failed, xf |-> xf]

\* A variant of broadcast2Endpoints that returns at the first failed Send.
Broadcast2EndpointsStopAtFailure(eps, kind, vb) ==
    {[endpoints |-> eps \ F, rec |-> Bc(kind, vb, IF F = {} THEN eps ELSE F, F, {})] :
        F \in {G \in SUBSET eps : Cardinality(G) <= 1}}

\* A variant of broadcast2Endpoints that keeps a failed endpoint in the table.
Broadcast2EndpointsKeepFailed(eps, kind, vb) ==
    {[endpoints |-> eps, rec |-> Bc(kind, vb, eps, F, {})] : F \in SUBSET eps}

\* broadcast2Endpoints: Send to every endpoint of the table; each Send may
\* fail, and a failed endpoint is closed and deleted from the table.
Broadcast2Endpoints(eps, kind, vb) ==
    {[endpoints |-> eps \ F, rec |-> Bc(kind, vb, eps, F, {})] : F \in SUBSET eps}

\* Broadcasts made one after the other by a range over worker.vbuckets:
\* failAt[a] is the broadcast at which the Send to a fails (0: never).
BroadcastMany(eps, kind, order) ==
    {[endpoints |-> {a \in eps : failAt[a] = 0},
      recs |-> [i \in 1..Len(order) |->
                  Bc(kind, order[i],
                     {a \in eps : failAt[a] = 0 \/ failAt[a] >= i},
                     {a \in eps : failAt[a] = i}, {})]] :
        failAt \in [eps -> 0..Len(order)]}

(***************************************************************************)
(* handleEvent.  A result is the state the handler leaves, what it         *)
(* published, the Vbucket it returns (vnil: nil) and whether it panicked.  *)
(***************************************************************************)
EvRes(vbs, eps, o, vnil, vopaque, panic, log) ==
    [vbuckets |-> vbs, endpoints |-> eps, out |-> o, vnil |-> vnil,
     vopaque |-> vopaque, panic |-> panic, log |-> log]

\* A variant of the stream-request case without the duplicate check.
HandleStreamReqReopen(m) ==
    LET vbno == m.VBucket
        v == NewVbucket(m.Opaque, vbno, m.VBuuid, m.Seqno)
        vbs == IF m.Status = "SUCCESS" THEN MapPut(vbuckets, vbno, v) ELSE vbuckets
        kind == IF m.Status = "SUCCESS" THEN "StreamBegin" ELSE "StreamBeginFailure"
    IN  {EvRes(vbs, b.endpoints, <<b.rec>>, FALSE, v.opaque, FALSE, {}) :
            b \in Broadcast2Endpoints(endpoints, kind, vbno)}

\* A variant of the stream-request case that stores the Vbucket whatever the
\* status.
HandleStreamReqStoreFailed(m) ==
    LET vbno == m.VBucket
        vbok == vbno \in DOMAIN vbuckets
    IN  IF m.Status = "SUCCESS" /\ vbok
        THEN {EvRes(vbuckets, endpoints, <<>>, FALSE, vbuckets[vbno].opaque, FALSE,
                    {"duplicate OpStreamRequest"})}
        ELSE LET v == NewVbucket(m.Opaque, vbno, m.VBuuid, m.Seqno)
                 kind == IF m.Status = "SUCCESS" THEN "StreamBegin" ELSE "StreamBeginFailure"
             IN  {EvRes(MapPut(vbuckets, vbno, v), b.endpoints, <<b.rec>>, FALSE, v.opaque,
                        FALSE, {}) :
                     b \in Broadcast2Endpoints(endpoints, kind, vbno)}

\* case mcd.DCP_STREAMREQ
HandleStreamReq(m) ==
    LET vbno == m.VBucket
        vbok == vbno \in DOMAIN vbuckets
    IN  IF m.Status = "SUCCESS" /\ vbok
        THEN {EvRes(vbuckets, endpoints, <<>>, FALSE, vbuckets[vbno].opaque, FALSE,
                    {"duplicate OpStreamRequest"})}
        ELSE LET v == NewVbucket(m.Opaque, vbno, m.VBuuid, m.Seqno)
                 vbs == IF m.Status = "SUCCESS" THEN MapPut(vbuckets, vbno, v) ELSE vbuckets
                 kind == IF m.Status = "SUCCESS" THEN "StreamBegin" ELSE "StreamBeginFailure"
             IN  IF MakeData(kind, engines)
                 THEN {EvRes(vbs, b.endpoints, <<b.rec>>, FALSE, v.opaque, FALSE, {}) :
                          b \in Broadcast2Endpoints(endpoints, kind, vbno)}
                 ELSE {EvRes(vbs, endpoints, <<>>, FALSE, v.opaque, FALSE, {"NOT PUBLISHED"})}

\* The broadcasting cases that need an Open shard: vbs is worker.vbuckets as
\* the case has updated it before it broadcasts.
BroadcastFor(m, vbs, kind) ==
    LET vbno == m.VBucket
    IN  IF MakeData(kind, engines)
        THEN {EvRes(vbs, b.endpoints, <<b.rec>>, FALSE, vbs[vbno].opaque, FALSE, {}) :
                 b \in Broadcast2Endpoints(endpoints, kind, vbno)}
        ELSE {EvRes(vbs, endpoints, <<>>, FALSE, vbs[vbno].opaque, FALSE, {"NOT PUBLISHED"})}

\* A variant of the not-started result that returns a zero Vbucket, not nil.
NotStartedZeroVbucket == {EvRes(vbuckets, endpoints, <<>>, FALSE, 0, FALSE, {"not started"})}

\* if !ok { logging.Errorf("... not started") }: the event is dropped and the
\* Vbucket returned is nil
NotStarted == {EvRes(vbuckets, endpoints, <<>>, TRUE, 0, FALSE, {"not started"})}

\* A variant of the snapshot case without the check that the shard is started.
HandleSnapshotUnguarded(m) ==
    {EvRes(vbuckets, b.endpoints, <<b.rec>>, TRUE, 0, FALSE, {}) :
        b \in Broadcast2Endpoints(endpoints, "Snapshot", m.VBucket)}

\* A variant of the snapshot case that records the seqno of the marker.
HandleSnapshotSetsSeqno(m) ==
    LET vbno == m.VBucket
    IN  IF vbno \notin DOMAIN vbuckets
        THEN NotStarted
        ELSE {EvRes([vbuckets EXCEPT ![vbno].sshotCount = @ + 1, ![vbno].seqno = m.Seqno],
                    b.endpoints, <<b.rec>>, FALSE, vbuckets[vbno].opaque, FALSE, {}) :
                 b \in Broadcast2Endpoints(endpoints, "Snapshot", vbno)}

\* case mcd.DCP_SNAPSHOT
HandleSnapshot(m) ==
    LET vbno == m.VBucket
    IN  IF vbno \notin DOMAIN vbuckets
        THEN NotStarted
        ELSE IF MakeData("Snapshot", engines)
             THEN {EvRes([vbuckets EXCEPT ![vbno].sshotCount = @ + 1], b.endpoints,
                         <<b.rec>>, FALSE, vbuckets[vbno].opaque, FALSE, {}) :
                      b \in Broadcast2Endpoints(endpoints, "Snapshot", vbno)}
             ELSE {EvRes(vbuckets, endpoints, <<>>, FALSE, vbuckets[vbno].opaque, FALSE,
                         {"NOT PUBLISHED"})}

\* What engine.TransformRoute may do for one engine: add its key versions for
\* its endpoints, add nothing, return an error, or panic.
TransformOutcomes == {"ok", "skip", "err", "panic"}

\* A variant of the delivery that sends to an address once for every engine
\* that has data for it.
DeliveryPerEngine(vbno, o, engs, data, sent, failed) ==
    LET parts == [a \in data |-> {e \in engs : o[e] = "ok" /\ a \in EngineEndpoints(e)}]
    IN  [data |-> data, ok |-> {e \in engs : o[e] = "ok"},
         err |-> {e \in engs : o[e] = "err"},
         parts |-> parts, sends |-> [a \in sent |-> Cardinality(parts[a])]]
           @@ Bc("KeyVersions", vbno, sent, failed, {e \in engs : o[e] # "none"})

\* The record of one delivery of key versions: the engines whose transform
\* added data (ok) and those whose transform returned an error (err), the
\* addresses that got data (the keys of dataForEndpoints), for each of them
\* the engines whose data its entry aggregates (parts), the number of Sends
\* made on each address (sends: the range over dataForEndpoints visits a key
\* once), and the fields of a broadcast, xf being the engines whose transform
\* was invoked (o[e] is "none" for an engine that was not reached).
Delivery(vbno, o, engs, data, sent, failed) ==
    [data |-> data, ok |-> {e \in engs : o[e] = "ok"},
     err |-> {e \in engs : o[e] = "err"},
     parts |-> [a \in data |-> {e \in engs : o[e] = "ok" /\ a \in EngineEndpoints(e)}],
     sends |-> [a \in sent |-> 1]]
       @@ Bc("KeyVersions", vbno, sent, failed, {e \in engs : o[e] # "none"})

\* A variant of processMutation that gives the event up when a transform
\* returns an error: the engines after it, in the order of the range, are not
\* invoked and nothing is delivered.
ProcessMutationAbortOnError(m, vbs, engs) ==
    LET vbno == m.VBucket
    IN  UNION {
          IF \E e \in engs : o[e] = "panic"
          THEN {EvRes(vbs, endpoints, <<>>, FALSE, vbs[vbno].opaque, TRUE, {})}
          ELSE IF \E e \in engs : o[e] = "err"
          THEN {EvRes(vbs, endpoints,
                      <<Delivery(vbno, [e \in engs |-> IF o[e] = "err" THEN "err" ELSE "none"],
                                 engs, {}, {}, {})>>,
                      FALSE, vbs[vbno].opaque, FALSE, {"TransformRoute"})}
          ELSE LET dataForEndpoints == UNION {EngineEndpoints(e) : e \in {x \in engs : o[x] = "ok"}}
                   targets == dataForEndpoints \cap endpoints
               IN  {EvRes(vbs, endpoints \ F,
                          <<Delivery(vbno, o, engs, dataForEndpoints, targets, F)>>,
                          FALSE, vbs[vbno].opaque, FALSE, {}) : F \in SUBSET targets}
          : o \in [engs -> TransformOutcomes]}

\* processMutation: every engine of the collection is transformed, then one
\* Send per address that got data and is in the endpoint table.
ProcessMutation(m, vbs, engs) ==
    LET vbno == m.VBucket
    IN  UNION {
          IF \E e \in engs : o[e] = "panic"
          THEN {EvRes(vbs, endpoints, <<>>, FALSE, vbs[vbno].opaque, TRUE, {})}
          ELSE LET dataForEndpoints == UNION {EngineEndpoints(e) : e \in {x \in engs : o[x] = "ok"}}
                   targets == dataForEndpoints \cap endpoints
                   log == IF \E e \in engs : o[e] = "err" THEN {"TransformRoute"} ELSE {}
               IN  {EvRes(vbs, endpoints \ F,
                          <<Delivery(vbno, o, engs, dataForEndpoints, targets, F)>>,
                          FALSE, vbs[vbno].opaque, FALSE, log) : F \in SUBSET targets}
          : o \in [engs -> TransformOutcomes]}

\* A variant of the mutation case that publishes nothing for a collection
\* without engines.
HandleMutationDropUnindexed(m) ==
    LET vbno == m.VBucket
    IN  IF vbno \notin DOMAIN vbuckets
        THEN NotStarted
        ELSE LET vbs == [vbuckets EXCEPT ![vbno].mutationCount = @ + 1,
                                         ![vbno].seqno = m.Seqno]
             IN  IF m.CollectionID \in DOMAIN engines
                 THEN ProcessMutation(m, vbs, engines[m.CollectionID])
                 ELSE {EvRes(vbs, endpoints, <<>>, FALSE, vbs[vbno].opaque, FALSE, {})}

\* case mcd.DCP_MUTATION, mcd.DCP_DELETION, mcd.DCP_EXPIRATION
HandleMutation(m) ==
    LET vbno == m.VBucket
    IN  IF vbno \notin DOMAIN vbuckets
        THEN NotStarted
        ELSE LET vbs == [vbuckets EXCEPT ![vbno].mutationCount = @ + 1,
                                         ![vbno].seqno = m.Seqno]
             IN  IF m.CollectionID \in DOMAIN engines
                 THEN ProcessMutation(m, vbs, engines[m.CollectionID])
                 ELSE BroadcastFor(m, vbs, "UpdateSeqno")

\* A variant of the system-event case that does not record the seqno.
HandleSeqnoEventKeepSeqno(m, kind) ==
    IF m.VBucket \notin DOMAIN vbuckets
    THEN NotStarted
    ELSE BroadcastFor(m, vbuckets, kind)

\* case mcd.DCP_SYSTEM_EVENT, case mcd.DCP_SEQNO_ADVANCED
HandleSeqnoEvent(m, kind) ==
    LET vbno == m.VBucket
    IN  IF vbno \notin DOMAIN vbuckets
        THEN NotStarted
        ELSE BroadcastFor(m, [vbuckets EXCEPT ![vbno].seqno = m.Seqno], kind)

\* case mcd.DCP_OSO_SNAPSHOT
HandleOSOSnapshot(m) ==
    IF m.VBucket \notin DOMAIN vbuckets
    THEN NotStarted
    ELSE BroadcastFor(m, vbuckets, "OSOSnapshot")

\* A variant of the stream-end case that removes the vbucket and publishes
\* nothing.
HandleStreamEndSilent(m) ==
    LET vbno == m.VBucket
    IN  IF vbno \notin DOMAIN vbuckets
        THEN {EvRes(vbuckets, endpoints, <<>>, TRUE, 0, FALSE, {})}
        ELSE {EvRes(MapDel(vbuckets, vbno), endpoints, <<>>, FALSE,
                    vbuckets[vbno].opaque, FALSE, {})}

\* A variant of the stream-end case that publishes the StreamEnd and keeps
\* the vbucket.
HandleStreamEndKeepShard(m) ==
    LET vbno == m.VBucket
    IN  IF vbno \notin DOMAIN vbuckets
        THEN {EvRes(vbuckets, endpoints, <<>>, TRUE, 0, FALSE, {})}
        ELSE {EvRes(vbuckets, b.endpoints, <<b.rec>>, FALSE,
                    vbuckets[vbno].opaque, FALSE, {}) :
                 b \in Broadcast2Endpoints(endpoints, "StreamEnd", vbno)}

\* case mcd.DCP_STREAMEND
HandleStreamEnd(m) ==
    LET vbno == m.VBucket
    IN  IF vbno \notin DOMAIN vbuckets
        THEN {EvRes(vbuckets, endpoints, <<>>, TRUE, 0, FALSE, {})}
        ELSE IF MakeData("StreamEnd", engines)
             THEN {EvRes(MapDel(vbuckets, vbno), b.endpoints, <<b.rec>>, FALSE,
                         vbuckets[vbno].opaque, FALSE, {}) :
                      b \in Broadcast2Endpoints(endpoints, "StreamEnd", vbno)}
             ELSE {EvRes(MapDel(vbuckets, vbno), endpoints, <<>>, FALSE,
                         vbuckets[vbno].opaque, FALSE, {"NOT PUBLISHED"})}

HandleEvent(m) ==
    CASE m.Opcode = "DCP_STREAMREQ" -> HandleStreamReq(m)
      [] m.Opcode = "DCP_SNAPSHOT" -> HandleSnapshot(m)
      [] m.Opcode \in MutationOps -> HandleMutation(m)
      [] m.Opcode = "DCP_SYSTEM_EVENT" -> HandleSeqnoEvent(m, "SystemEvent")
      [] m.Opcode = "DCP_SEQNO_ADVANCED" -> HandleSeqnoEvent(m, "SeqnoAdvanced")
      [] m.Opcode = "DCP_OSO_SNAPSHOT" -> HandleOSOSnapshot(m)
      [] m.Opcode = "DCP_STREAMEND" -> HandleStreamEnd(m)

(***************************************************************************)
(* handleCommand.                                                          *)
(***************************************************************************)
\* A variant of vwCmdAddEngines that adds the supplied engines to the old map.
AddEnginesMapMerged(engs) ==
    [cid \in DOMAIN engines \cup {EngineCid(e) : e \in engs} |->
        (IF cid \in DOMAIN engines THEN engines[cid] ELSE {})
           \cup {e \in engs : EngineCid(e) = cid}]

\* A variant of vwCmdAddEngines that keeps the old collections for which no
\* engine is supplied.
AddEnginesMapKeepOthers(engs) ==
    [cid \in DOMAIN engines \cup {EngineCid(e) : e \in engs} |->
        IF cid \in {EngineCid(e) : e \in engs}
        THEN {e \in engs : EngineCid(e) = cid}
        ELSE engines[cid]]

\* case vwCmdAddEngines: the fresh engine map built from the supplied engines
AddEnginesMap(engs) ==
    [cid \in {EngineCid(e) : e \in engs} |-> {e \in engs : EngineCid(e) = cid}]

\* The addresses the engines of the map send to.
EngineAddrs(engmap) ==
    UNION {EngineEndpoints(e) : e \in UNION {engmap[cid] : cid \in DOMAIN engmap}}

\* A variant of updateEndpoints that takes every address an engine references.
UpdateEndpointsAllReferenced(engmap, eps) == EngineAddrs(engmap)

\* updateEndpoints: the addresses of the installed engines found in eps
UpdateEndpoints(engmap, eps) == {raddr \in EngineAddrs(engmap) : raddr \in eps}

\* A variant of the loop body that keeps the entry of an emptied collection.
DelEngineKeepEmpty(engmap, uuid, cid) ==
    IF cid \notin DOMAIN engmap
    THEN engmap
    ELSE [engmap EXCEPT ![cid] = @ \ {uuid}]

\* case vwCmdDelEngines: one iteration of the loop over engineKeys
DelEngine(engmap, uuid, cid) ==
    IF cid \notin DOMAIN engmap
    THEN engmap
    ELSE IF engmap[cid] \ {uuid} = {}
         THEN MapDel(engmap, cid)
         ELSE [engmap EXCEPT ![cid] = @ \ {uuid}]

\* A variant of vwCmdDelEngines that removes the listed engines from every
\* collection.
DelEnginesAnyCollection(engmap, engineKeys, collectionIds) ==
    LET listed == {engineKeys[i] : i \in 1..Len(engineKeys)}
    IN  [cid \in {c \in DOMAIN engmap : engmap[c] \ listed # {}} |-> engmap[cid] \ listed]

\* case vwCmdDelEngines: collectionIds[i] is out of range, and the loop
\* panics, at the first key that has no collection id
CommandPanics(msg) == msg.cmd = "vwCmdDelEngines" /\ Len(msg.keys) > Len(msg.cids)

\* case vwCmdDelEngines: the loop over engineKeys, as far as it gets
RECURSIVE DelEngines(_, _, _)
DelEngines(engmap, engineKeys, collectionIds) ==
    IF engineKeys = <<>> \/ collectionIds = <<>>
    THEN engmap
    ELSE DelEngines(DelEngine(engmap, Head(engineKeys), Head(collectionIds)),
                    Tail(engineKeys), Tail(collectionIds))

\* The replies sent on the caller's response channel.
Resp(kind, vbs, seqnos, stats) ==
    [kind |-> kind, vbs |-> vbs, seqnos |-> seqnos, stats |-> stats]
VbStats(v) ==
    [syncs |-> v.syncCount, snapshots |-> v.sshotCount, mutations |-> v.mutationCount]

\* The result of handleCommand(msg): the maps it leaves, its reply and
\* whether it asks run() to break the loop.
CmdRes(engs, eps, resp, breakloop, log) ==
    [engines |-> engs, endpoints |-> eps, resp |-> resp, breakloop |-> breakloop,
     log |-> log]

\* A variant of the reply of vwCmdAddEngines that reports the mutation counts.
CSeqnosMutationCounts == [vb \in DOMAIN vbuckets |-> vbuckets[vb].mutationCount]

\* A variant of the reply of vwCmdAddEngines that takes the mutations still
\* in the data queue for handled.
CSeqnosAfterQueuedEvents ==
    [vb \in DOMAIN vbuckets |->
        IF \E i \in 1..Len(datach) :
              /\ datach[i].cmd = "vwCmdEvent"
              /\ datach[i].m.VBucket = vb
              /\ datach[i].m.Opcode \in MutationOps
        THEN LET last == CHOOSE i \in 1..Len(datach) :
                            /\ datach[i].cmd = "vwCmdEvent"
                            /\ datach[i].m.VBucket = vb
                            /\ datach[i].m.Opcode \in MutationOps
                            /\ \A j \in (i + 1)..Len(datach) :
                                  ~(/\ datach[j].cmd = "vwCmdEvent"
                                    /\ datach[j].m.VBucket = vb
                                    /\ datach[j].m.Opcode \in MutationOps)
             IN  datach[last].m.Seqno
        ELSE vbuckets[vb].seqno]

\* case vwCmdAddEngines: cseqnos, the seqno of every vbucket of the worker
CSeqnos == [vb \in DOMAIN vbuckets |-> vbuckets[vb].seqno]

\* A variant of vwCmdGetVbuckets that lists one vbucket only.
VbucketListFirstOnly ==
    {IF l = <<>> THEN <<>> ELSE <<Head(l)>> : l \in Orders(DOMAIN vbuckets)}

\* case vwCmdGetVbuckets: the slice the range over worker.vbuckets builds
VbucketList == Orders(DOMAIN vbuckets)

\* strconv.Itoa of a number that is not negative
Digit(d) ==
    CASE d = 0 -> "0" [] d = 1 -> "1" [] d = 2 -> "2" [] d = 3 -> "3" [] d = 4 -> "4"
      [] d = 5 -> "5" [] d = 6 -> "6" [] d = 7 -> "7" [] d = 8 -> "8" [] d = 9 -> "9"
RECURSIVE Itoa(_)
Itoa(n) == IF n < 10 THEN Digit(n) ELSE Itoa(n \div 10) \o Digit(n % 10)

\* A variant of vwCmdGetStats that reports the seqno as the mutation count.
StatsMapSeqnoAsMutations ==
    [key \in {Itoa(vb) : vb \in DOMAIN vbuckets} |->
        LET v == vbuckets[CHOOSE vb \in DOMAIN vbuckets : Itoa(vb) = key]
        IN  [syncs |-> v.syncCount, snapshots |-> v.sshotCount, mutations |-> v.seqno]]

\* case vwCmdGetStats: the stats map the range over worker.vbuckets builds,
\* keyed by strconv.Itoa(int(vbno))
StatsMap ==
    [key \in {Itoa(vb) : vb \in DOMAIN vbuckets} |->
        VbStats(vbuckets[CHOOSE vb \in DOMAIN vbuckets : Itoa(vb) = key])]

\* A variant of vwCmdClose that replies and lets the loop go on.
HandleCloseNoBreak ==
    {CmdRes(engines, endpoints, Resp("nil", <<>>, <<>>, <<>>), FALSE, {})}

\* case vwCmdClose: the reply, and true for run() to break the loop
HandleClose ==
    {CmdRes(engines, endpoints, Resp("nil", <<>>, <<>>, <<>>), TRUE, {})}

HandleCommand(msg) ==
    CASE msg.cmd = "vwCmdGetVbuckets" ->
            {CmdRes(engines, endpoints, Resp("vbuckets", l, <<>>, <<>>), FALSE, {}) :
                l \in VbucketList}
      [] msg.cmd = "vwCmdAddEngines" ->
            LET engmap == AddEnginesMap(msg.engs)
                eps == IF msg.eps = NilEps THEN endpoints
                       ELSE UpdateEndpoints(engmap, msg.eps)
                cseqnos == CSeqnos
                log == IF msg.eps # NilEps /\ ~(EngineAddrs(engmap) \subseteq msg.eps)
                       THEN {"endpoint not found"} ELSE {}
            IN  {CmdRes(engmap, eps, Resp("cseqnos", <<>>, cseqnos, <<>>), FALSE, log)}
      [] msg.cmd = "vwCmdDelEngines" ->
            {CmdRes(DelEngines(engines, msg.keys, msg.cids), endpoints,
                    IF CommandPanics(msg) THEN NoResp ELSE Resp("nil", <<>>, <<>>, <<>>),
                    FALSE,
                    IF CommandPanics(msg) THEN {"run() crashed"} ELSE {})}
      [] msg.cmd = "vwCmdGetStats" ->
            {CmdRes(engines, endpoints, Resp("stats", <<>>, <<>>, StatsMap), FALSE, {})}
      [] msg.cmd = "vwCmdResetConfig" ->
            {CmdRes(engines, endpoints, Resp("nil", <<>>, <<>>, <<>>), FALSE, {})}
      [] msg.cmd = "vwCmdClose" -> HandleClose

(***************************************************************************)
(* The bookkeeping every step shares.                                      *)
(***************************************************************************)
\* The addresses whose Send failed in the records o
FailedIn(o) == UNION {o[i].failed : i \in 1..Len(o)}

\* StreamEnd broadcasts of vb among the records o
EndsIn(o, vb) == Cardinality({i \in 1..Len(o) : o[i].kind = "StreamEnd" /\ o[i].vb = vb})

EndCountAfter(vbs, o) ==
    [vb \in Vbs |->
        IF vb \in DOMAIN vbs /\ vb \notin DOMAIN vbuckets
        THEN 0
        ELSE endCount[vb] + EndsIn(o, vb)]

\* The seqno of each shard that the step removed from worker.vbuckets
EndedSeqnoAfter(vbs) ==
    [vb \in Vbs |->
        IF vb \in DOMAIN vbuckets /\ vb \notin DOMAIN vbs
        THEN vbuckets[vb].seqno
        ELSE endedSeqno[vb]]

WorkerInit ==
    /\ vbuckets = EmptyMap
    /\ engines = EmptyMap
    /\ endpoints = {}
    /\ sbch = <<>>
    /\ datach = <<>>
    /\ respch = [c \in Clients |-> NoResp]
    /\ finch = FALSE
    /\ closed = FALSE
    /\ pc = "top"
    /\ recovered = FALSE
    /\ waiting = [c \in Clients |-> FALSE]
    /\ ret = [c \in Clients \cup {"feed"} |-> "none"]
    /\ nEvents = 0
    /\ nCmds = 0
    /\ out = <<>>
    /\ errlog = {}
    /\ candidates = NilEps
    /\ evicted = {}
    /\ endCount = [vb \in Vbs |-> 0]
    /\ endedSeqno = [vb \in Vbs |-> 0]
    /\ dataSince = 0
    /\ pendingAtTop = 0
    /\ queuedBefore = 0

\* No list of statuses is being consolidated while the worker is explored.
Init ==
    /\ WorkerInit
    /\ statuses = <<>>
    /\ statusMap = EmptyMap

\* The process is alive: os.Exit has not been called.
Alive == pc # "exited"

workerVars == <<vbuckets, engines, endpoints, finch, closed, pc, recovered, candidates,
                evicted, endCount, endedSeqno>>

(***************************************************************************)
(* The feed: Event and SyncPulse (FailsafeOpAsync on datach).              *)
(***************************************************************************)
\* FailsafeOpAsync: the message is queued when there is room, the submitter
\* waits while the queue is full, and the call fails once the worker has
\* terminated.
PostData(msg, cap) ==
    /\ Alive
    /\ nEvents < MaxEvents
    /\ \/ /\ ~finch
          /\ Len(datach) < cap
          /\ datach' = Append(datach, msg)
          /\ ret' = [ret EXCEPT !["feed"] = "ok"]
       \/ /\ finch
          /\ datach' = datach
          /\ ret' = [ret EXCEPT !["feed"] = "ErrorClosed"]
    /\ nEvents' = nEvents + 1
    /\ out' = <<>>
    /\ errlog' = {}
    /\ UNCHANGED <<workerVars, statuses, statusMap, sbch, respch, waiting, nCmds, dataSince, pendingAtTop, queuedBefore>>

\* A variant of Event that gives up, without an error, when datach is full.
EventNonBlocking(evs, cap) ==
    \E m \in evs :
        IF Len(datach) >= cap /\ ~finch
        THEN /\ Alive
             /\ nEvents < MaxEvents
             /\ nEvents' = nEvents + 1
             /\ ret' = [ret EXCEPT !["feed"] = "ok"]
             /\ out' = <<>>
             /\ errlog' = {}
             /\ UNCHANGED <<workerVars, statuses, statusMap, sbch, datach, respch, waiting, nCmds, dataSince,
                   pendingAtTop, queuedBefore>>
        ELSE PostData(DataMsg("vwCmdEvent", m), cap)

\* Event: FailsafeOpAsync(worker.datach, {vwCmdEvent, m}, worker.finch)
Event(evs, cap) == \E m \in evs : PostData(DataMsg("vwCmdEvent", m), cap)

SyncPulse(cap) == PostData(DataMsg("vwCmdSyncPulse", NoEvent), cap)

(***************************************************************************)
(* The synchronous calls (FailsafeOp on sbch).                             *)
(***************************************************************************)
\* The arguments the supervisor may pass.
\* DeleteEngines: one engine with its collection, one engine with another
\* collection, two engines of two collections.
DelArgs ==
    {<< <<1>>, <<1>> >>, << <<2>>, <<1>> >>, << <<1>>, <<2>> >>,
     << <<1, 3>>, <<1, 2>> >>}
\* AddEngines: engines of one or of two collections with both addresses as
\* candidates, engines with one of their addresses as the only candidate,
\* and no engine with no candidate.
AddArgs ==
    {<<engs, Addrs>> : engs \in {{1, 2}, {1, 3}, {2}, {2, 3}}}
       \cup {<<{1, 2}, {"A"}>>, <<{}, {}>>}
SupCmds(c) ==
    {SimpleCmd(k, c) : k \in {"vwCmdGetVbuckets", "vwCmdGetStats", "vwCmdResetConfig",
                              "vwCmdClose"}}
      \cup {Cmd("vwCmdAddEngines", c, a[1], a[2], <<>>, <<>>) : a \in AddArgs}
      \cup {Cmd("vwCmdDelEngines", c, {}, {}, a[1], a[2]) : a \in DelArgs}
\* The control calls made while the events are explored.
FewCmds(c) ==
    {SimpleCmd(k, c) : k \in {"vwCmdGetVbuckets", "vwCmdClose"}}
      \cup {Cmd("vwCmdAddEngines", c, {1, 2}, Addrs, <<>>, <<>>)}
\* The control call that installs the engines.
InstallCmds(c) == {Cmd("vwCmdAddEngines", c, {1, 2}, Addrs, <<>>, <<>>)}
CloseCmd(c) == {SimpleCmd("vwCmdClose", c)}
\* The calls of the supervisor and of the second caller in each exploration.
SupInstallCmds == InstallCmds("sup")
SupAllCmds == SupCmds("sup")
SupFewCmds == FewCmds("sup")
SupCloseCmd == CloseCmd("sup")
CloserCloseCmd == CloseCmd("closer")

MayCall(c) ==
    /\ Alive
    /\ ~waiting[c]
    /\ IF c = "sup" THEN nCmds < MaxCmds ELSE ret[c] = "none"

\* FailsafeOp, first half: the command is queued when there is room, and the
\* call fails once the worker has terminated.
Post(c, cmds, cap) ==
    /\ MayCall(c)
    /\ \/ /\ ~finch
          /\ Len(sbch) < cap
          /\ \E msg \in cmds : sbch' = Append(sbch, msg)
          /\ waiting' = [waiting EXCEPT ![c] = TRUE]
          /\ ret' = ret
       \/ /\ finch
          /\ ret' = [ret EXCEPT ![c] = "ErrorClosed"]
          /\ UNCHANGED <<sbch, waiting>>
    /\ nCmds' = IF c = "sup" THEN nCmds + 1 ELSE nCmds
    /\ out' = <<>>
    /\ errlog' = {}
    /\ queuedBefore' = IF c = "sup" /\ ~finch THEN Len(datach) ELSE queuedBefore
    /\ UNCHANGED <<workerVars, statuses, statusMap, datach, respch, nEvents, dataSince, pendingAtTop>>

\* FailsafeOp, second half: the caller blocks for the reply on its response
\* channel, and fails once the worker has terminated.
Return(c) ==
    /\ Alive
    /\ waiting[c]
    /\ \/ /\ respch[c] # NoResp
          /\ ret' = [ret EXCEPT ![c] = "ok"]
       \/ /\ finch
          /\ ret' = [ret EXCEPT ![c] = "ErrorClosed"]
    /\ respch' = [respch EXCEPT ![c] = NoResp]
    /\ waiting' = [waiting EXCEPT ![c] = FALSE]
    /\ out' = <<>>
    /\ errlog' = {}
    /\ queuedBefore' = IF c = "sup" THEN 0 ELSE queuedBefore
    /\ UNCHANGED <<workerVars, statuses, statusMap, sbch, datach, nEvents, nCmds, dataSince, pendingAtTop>>

(***************************************************************************)
(* run(): the loop and its deferred function.                              *)
(***************************************************************************)
\* handleCommand on the head of sbch, from either select; next is where the
\* loop goes when the command does not break it.
DoCommand(next) ==
    /\ sbch # <<>>
    /\ LET msg == Head(sbch)
       IN  \E r \in HandleCommand(msg) :
              /\ engines' = r.engines
              /\ endpoints' = r.endpoints
              /\ respch' = [respch EXCEPT ![msg.from] = r.resp]
              /\ pc' = IF r.breakloop \/ CommandPanics(msg) THEN "defer" ELSE next
              /\ recovered' = (recovered \/ CommandPanics(msg))
              /\ errlog' = r.log
              /\ candidates' = IF msg.cmd = "vwCmdAddEngines" /\ msg.eps # NilEps
                               THEN msg.eps ELSE candidates
              /\ evicted' = evicted \ r.endpoints
    /\ sbch' = Tail(sbch)
    /\ dataSince' = 0
    /\ pendingAtTop' = (IF next = "wait" THEN Len(sbch) - 1
                        ELSE IF pendingAtTop > 0 THEN pendingAtTop - 1 ELSE 0)
    /\ queuedBefore' = queuedBefore
    /\ out' = <<>>
    /\ UNCHANGED <<vbuckets, datach, finch, closed, waiting, ret, nEvents, nCmds,
                   endCount, endedSeqno, statuses, statusMap>>

\* A variant of the loop without the first select.
TopSelectNoCheck ==
    /\ pc = "top"
    /\ pc' = "wait"
    /\ out' = <<>>
    /\ errlog' = {}
    /\ UNCHANGED <<vbuckets, engines, endpoints, sbch, datach, respch, finch, closed,
                   recovered, waiting, ret, nEvents, nCmds, candidates, evicted, endCount, endedSeqno, statuses, statusMap,
                   dataSince, pendingAtTop, queuedBefore>>

\* first select: case msg := <-sbch, else default
TopSelect ==
    /\ pc = "top"
    /\ \/ DoCommand("wait")
       \/ /\ sbch = <<>>
          /\ pc' = "wait"
          /\ pendingAtTop' = 0
          /\ queuedBefore' = queuedBefore
          /\ out' = <<>>
          /\ errlog' = {}
          /\ UNCHANGED <<vbuckets, engines, endpoints, sbch, datach, respch, finch, closed,
                         recovered, waiting, ret, nEvents, nCmds, candidates, evicted, endCount, endedSeqno, statuses, statusMap,
                         dataSince>>

\* A variant of the second select without its command arm.
WaitCommandNever ==
    /\ pc = "wait"
    /\ FALSE
    /\ UNCHANGED vars

\* second select, case msg := <-sbch
WaitCommand ==
    /\ pc = "wait"
    /\ DoCommand("top")

\* A variant of run() without the opaque check.
AfterEventContinue(m, r) == "top"

\* Where run() goes after handleEvent(m) returned r: on with the loop, or
\* os.Exit(1) on an opaque mismatch.
AfterEvent(m, r) ==
    IF r.vnil THEN "top"
    ELSE IF m.Opcode = "DCP_STREAMEND" THEN "top"
    ELSE IF m.Opaque # r.vopaque THEN "exited"
    ELSE "top"

\* What run() logs after handleEvent(m) returned r.
LogAfterEvent(m, r) ==
    IF r.vnil THEN {"nil vbucket"}
    ELSE IF m.Opcode # "DCP_STREAMEND" /\ m.Opaque # r.vopaque THEN {"mismatch with vbucket"}
    ELSE {}

\* A variant of run() that checks the opaque before the event is applied to
\* the shard.
VbucketsAfterEventCheckFirst(m, r) ==
    IF ~r.vnil /\ m.Opcode # "DCP_STREAMEND" /\ m.Opaque # r.vopaque THEN vbuckets
    ELSE IF ~r.vnil /\ m.Opcode = "DCP_STREAMEND" THEN MapDel(r.vbuckets, m.VBucket)
    ELSE r.vbuckets

\* worker.vbuckets after the event: run() deletes the shard of a StreamEnd.
VbucketsAfterEvent(m, r) ==
    IF ~r.vnil /\ m.Opcode = "DCP_STREAMEND" THEN MapDel(r.vbuckets, m.VBucket)
    ELSE r.vbuckets

DataSinceAfter == IF sbch # <<>> THEN dataSince + 1 ELSE 0

\* queuedBefore after a message is taken from datach: one less while the
\* supervisor's command is not handled yet.
QueuedBeforeAfterData ==
    IF waiting["sup"] /\ respch["sup"] = NoResp /\ queuedBefore > 0
    THEN queuedBefore - 1
    ELSE queuedBefore

\* A variant of the second select that takes the newest message of datach.
WaitEventNewestFirst ==
    /\ pc = "wait"
    /\ datach # <<>>
    /\ datach[Len(datach)].cmd = "vwCmdEvent"
    /\ LET m == datach[Len(datach)].m
       IN  \E r \in HandleEvent(m) :
              /\ endpoints' = r.endpoints
              /\ out' = r.out
              /\ IF r.panic
                 THEN /\ vbuckets' = r.vbuckets
                      /\ pc' = "defer"
                      /\ recovered' = TRUE
                      /\ errlog' = r.log \cup {"run() crashed"}
                 ELSE /\ vbuckets' = VbucketsAfterEvent(m, r)
                      /\ pc' = AfterEvent(m, r)
                      /\ recovered' = recovered
                      /\ errlog' = r.log \cup LogAfterEvent(m, r)
              /\ endCount' = EndCountAfter(r.vbuckets, r.out)
              /\ endedSeqno' = EndedSeqnoAfter(r.vbuckets)
              /\ UNCHANGED <<statuses, statusMap>>
              /\ evicted' = evicted \cup FailedIn(r.out)
    /\ datach' = SubSeq(datach, 1, Len(datach) - 1)
    /\ dataSince' = DataSinceAfter
    /\ pendingAtTop' = pendingAtTop
    /\ queuedBefore' = QueuedBeforeAfterData
    /\ UNCHANGED <<engines, sbch, respch, finch, closed, waiting, ret, nEvents, nCmds,
                   candidates>>

\* A variant of run() without the recover: a panic in handleEvent ends the
\* process.
WaitEventPanicCrashes ==
    /\ pc = "wait"
    /\ datach # <<>>
    /\ Head(datach).cmd = "vwCmdEvent"
    /\ LET m == Head(datach).m
       IN  \E r \in HandleEvent(m) :
              /\ endpoints' = r.endpoints
              /\ out' = r.out
              /\ IF r.panic
                 THEN /\ vbuckets' = r.vbuckets
                      /\ pc' = "exited"
                      /\ recovered' = TRUE
                      /\ errlog' = r.log \cup {"run() crashed"}
                 ELSE /\ vbuckets' = VbucketsAfterEvent(m, r)
                      /\ pc' = AfterEvent(m, r)
                      /\ recovered' = recovered
                      /\ errlog' = r.log \cup LogAfterEvent(m, r)
              /\ endCount' = EndCountAfter(r.vbuckets, r.out)
              /\ endedSeqno' = EndedSeqnoAfter(r.vbuckets)
              /\ UNCHANGED <<statuses, statusMap>>
              /\ evicted' = evicted \cup FailedIn(r.out)
    /\ datach' = Tail(datach)
    /\ dataSince' = DataSinceAfter
    /\ pendingAtTop' = pendingAtTop
    /\ queuedBefore' = QueuedBeforeAfterData
    /\ UNCHANGED <<engines, sbch, respch, finch, closed, waiting, ret, nEvents, nCmds,
                   candidates>>

\* second select, case msg := <-datach, vwCmdEvent
WaitEvent ==
    /\ pc = "wait"
    /\ datach # <<>>
    /\ Head(datach).cmd = "vwCmdEvent"
    /\ LET m == Head(datach).m
       IN  \E r \in HandleEvent(m) :
              /\ endpoints' = r.endpoints
              /\ out' = r.out
              /\ IF r.panic
                 THEN /\ vbuckets' = r.vbuckets
                      /\ pc' = "defer"
                      /\ recovered' = TRUE
                      /\ errlog' = r.log \cup {"run() crashed"}
                 ELSE /\ vbuckets' = VbucketsAfterEvent(m, r)
                      /\ pc' = AfterEvent(m, r)
                      /\ recovered' = recovered
                      /\ errlog' = r.log \cup LogAfterEvent(m, r)
              /\ endCount' = EndCountAfter(r.vbuckets, r.out)
              /\ endedSeqno' = EndedSeqnoAfter(r.vbuckets)
              /\ UNCHANGED <<statuses, statusMap>>
              /\ evicted' = evicted \cup FailedIn(r.out)
    /\ datach' = Tail(datach)
    /\ dataSince' = DataSinceAfter
    /\ pendingAtTop' = pendingAtTop
    /\ queuedBefore' = QueuedBeforeAfterData
    /\ UNCHANGED <<engines, sbch, respch, finch, closed, waiting, ret, nEvents, nCmds,
                   candidates>>

\* A variant of the sync pulse that stops after the first vbucket.
WaitSyncPulseFirstOnly ==
    /\ pc = "wait"
    /\ datach # <<>>
    /\ Head(datach).cmd = "vwCmdSyncPulse"
    /\ \E order \in Orders(DOMAIN vbuckets) :
          \E b \in BroadcastMany(endpoints, "Sync",
                                  IF order = <<>> THEN <<>> ELSE <<Head(order)>>) :
              /\ vbuckets' = [vb \in DOMAIN vbuckets |->
                                IF order # <<>> /\ vb = Head(order)
                                THEN [vbuckets[vb] EXCEPT !.syncCount = @ + 1]
                                ELSE vbuckets[vb]]
              /\ endpoints' = b.endpoints
              /\ out' = b.recs
              /\ evicted' = evicted \cup FailedIn(out')
    /\ errlog' = {}
    /\ datach' = Tail(datach)
    /\ dataSince' = DataSinceAfter
    /\ pendingAtTop' = pendingAtTop
    /\ queuedBefore' = QueuedBeforeAfterData
    /\ pc' = "top"
    /\ UNCHANGED <<engines, sbch, respch, finch, closed, recovered, waiting, ret, nEvents,
                   nCmds, candidates, endCount, endedSeqno, statuses, statusMap>>

\* second select, case msg := <-datach, vwCmdSyncPulse
WaitSyncPulse ==
    /\ pc = "wait"
    /\ datach # <<>>
    /\ Head(datach).cmd = "vwCmdSyncPulse"
    /\ \E order \in Orders(DOMAIN vbuckets) :
          \E b \in BroadcastMany(endpoints, "Sync", order) :
              /\ vbuckets' = [vb \in DOMAIN vbuckets |->
                                IF MakeData("Sync", engines)
                                THEN [vbuckets[vb] EXCEPT !.syncCount = @ + 1]
                                ELSE vbuckets[vb]]
              /\ endpoints' = IF MakeData("Sync", engines) THEN b.endpoints ELSE endpoints
              /\ out' = IF MakeData("Sync", engines) THEN b.recs ELSE <<>>
              /\ evicted' = evicted \cup FailedIn(out')
    /\ errlog' = IF MakeData("Sync", engines) \/ vbuckets = EmptyMap THEN {}
                 ELSE {"NOT PUBLISHED"}
    /\ datach' = Tail(datach)
    /\ dataSince' = DataSinceAfter
    /\ pendingAtTop' = pendingAtTop
    /\ queuedBefore' = QueuedBeforeAfterData
    /\ pc' = "top"
    /\ UNCHANGED <<engines, sbch, respch, finch, closed, recovered, waiting, ret, nEvents,
                   nCmds, candidates, endCount, endedSeqno, statuses, statusMap>>

\* A variant of the deferred function that ends one vbucket only.
DeferStreamEndsFirstOnly ==
    /\ pc = "defer"
    /\ \E order \in Orders(DOMAIN vbuckets) :
          \E b \in BroadcastMany(endpoints, "StreamEnd",
                                  IF order = <<>> THEN <<>> ELSE <<Head(order)>>) :
              /\ endpoints' = b.endpoints
              /\ out' = b.recs
              /\ endCount' = EndCountAfter(vbuckets, out')
              /\ endedSeqno' = endedSeqno
              /\ UNCHANGED <<statuses, statusMap>>
              /\ evicted' = evicted \cup FailedIn(out')
    /\ errlog' = {}
    /\ pc' = "fin"
    /\ UNCHANGED <<vbuckets, engines, sbch, datach, respch, finch, closed, recovered,
                   waiting, ret, nEvents, nCmds, candidates, dataSince,
                   pendingAtTop, queuedBefore>>

\* A variant of the deferred function that publishes nothing.
DeferNoStreamEnds ==
    /\ pc = "defer"
    /\ pc' = "fin"
    /\ out' = <<>>
    /\ errlog' = {}
    /\ UNCHANGED <<vbuckets, engines, endpoints, sbch, datach, respch, finch, closed,
                   recovered, waiting, ret, nEvents, nCmds, candidates, evicted, endCount, endedSeqno, statuses, statusMap, dataSince,
                   pendingAtTop, queuedBefore>>

\* The deferred function: a StreamEnd for every vbucket still in the map ...
DeferStreamEnds ==
    /\ pc = "defer"
    /\ \E order \in Orders(DOMAIN vbuckets) :
          \E b \in BroadcastMany(endpoints, "StreamEnd", order) :
              /\ endpoints' = IF MakeData("StreamEnd", engines) THEN b.endpoints ELSE endpoints
              /\ out' = IF MakeData("StreamEnd", engines) THEN b.recs ELSE <<>>
              /\ endCount' = EndCountAfter(vbuckets, out')
              /\ endedSeqno' = endedSeqno
              /\ UNCHANGED <<statuses, statusMap>>
              /\ evicted' = evicted \cup FailedIn(out')
    /\ errlog' = IF MakeData("StreamEnd", engines) \/ vbuckets = EmptyMap THEN {}
                 ELSE {"NOT PUBLISHED"}
    /\ pc' = "fin"
    /\ UNCHANGED <<vbuckets, engines, sbch, datach, respch, finch, closed, recovered,
                   waiting, ret, nEvents, nCmds, candidates, dataSince,
                   pendingAtTop, queuedBefore>>

\* A variant of the deferred function that leaves finch open.
KeepFinchOpen ==
    /\ pc = "fin"
    /\ pc' = "setclosed"
    /\ out' = <<>>
    /\ errlog' = {}
    /\ UNCHANGED <<vbuckets, engines, endpoints, sbch, datach, respch, finch, closed,
                   recovered, waiting, ret, nEvents, nCmds, candidates, evicted, endCount, endedSeqno, statuses, statusMap, dataSince,
                   pendingAtTop, queuedBefore>>

\* ... then close(worker.finch) ...
CloseFinch ==
    /\ pc = "fin"
    /\ finch' = TRUE
    /\ pc' = "setclosed"
    /\ out' = <<>>
    /\ errlog' = {}
    /\ UNCHANGED <<vbuckets, engines, endpoints, sbch, datach, respch, closed, recovered,
                   waiting, ret, nEvents, nCmds, candidates, evicted, endCount, endedSeqno, statuses, statusMap, dataSince,
                   pendingAtTop, queuedBefore>>

\* ... then worker.stats.closed.Set(true).
SetClosed ==
    /\ pc = "setclosed"
    /\ closed' = TRUE
    /\ pc' = "stopped"
    /\ out' = <<>>
    /\ errlog' = {}
    /\ UNCHANGED <<vbuckets, engines, endpoints, sbch, datach, respch, finch, recovered,
                   waiting, ret, nEvents, nCmds, candidates, evicted, endCount, endedSeqno, statuses, statusMap, dataSince,
                   pendingAtTop, queuedBefore>>

Run == TopSelect \/ WaitCommand \/ WaitEvent \/ WaitSyncPulse
          \/ DeferStreamEnds \/ CloseFinch \/ SetClosed

\* The feed with the events of one shard, a supervisor that installs the
\* engines.
Next ==
    \/ Event(FeedEvents, mutChanSizeOne)
    \/ SyncPulse(mutChanSizeOne)
    \/ (nCmds < MaxFewCmds /\ Post("sup", SupInstallCmds, mutChanSizeOne))
    \/ Return("sup")
    \/ Run

Spec == Init /\ [][Next]_vars

\* A supervisor making every control call, the feed submitting few events of
\* one shard.
NextCtl ==
    \/ (nEvents < MaxFewEvents /\ Event(FewEvents, mutChanSizeOne))
    \/ (nEvents < MaxFewEvents /\ SyncPulse(mutChanSizeOne))
    \/ Post("sup", SupAllCmds, mutChanSizeOne)
    \/ Return("sup")
    \/ Run

SpecCtl == Init /\ [][NextCtl]_vars

\* Two callers, the second one calling Close only, and few events of one
\* shard.
NextClose ==
    \/ (nEvents < MaxFewEvents /\ Event(FewEvents, mutChanSize))
    \/ (nEvents < MaxFewEvents /\ SyncPulse(mutChanSize))
    \/ (nCmds < MaxFewCmds /\ Post("sup", SupFewCmds, mutChanSize))
    \/ Post("closer", CloserCloseCmd, mutChanSize)
    \/ \E c \in Clients : Return(c)
    \/ Run

SpecClose == Init /\ [][NextClose]_vars

\* The events of two shards, and a supervisor that queries, installs the
\* engines or closes.
NextShards ==
    \/ Event(TwoShardEvents, mutChanSizeOne)
    \/ SyncPulse(mutChanSizeOne)
    \/ (nCmds < MaxFewCmds /\ Post("sup", SupFewCmds, mutChanSizeOne))
    \/ Return("sup")
    \/ Run

SpecShards == Init /\ [][NextShards]_vars


\* The streams of two shards beginning and ending.
BeginEndEvents ==
    {m \in TwoShardEvents : m.Opaque = 1 /\ m.Opcode \in {"DCP_STREAMREQ", "DCP_STREAMEND"}}

\* Two callers that call Close only: the supervisor up to MaxCmds times, one
\* call after the other, and a second caller concurrently.
NextTwice ==
    \/ (nEvents < MaxFewEvents /\ Event(BeginEndEvents, mutChanSize))
    \/ (nEvents < MaxFewEvents /\ SyncPulse(mutChanSize))
    \/ Post("sup", SupCloseCmd, mutChanSize)
    \/ Post("closer", CloserCloseCmd, mutChanSize)
    \/ \E c \in Clients : Return(c)
    \/ Run

SpecTwice == Init /\ [][NextTwice]_vars

\* The scheduler runs the worker's goroutine and the goroutine of a caller
\* whenever they can take a step.
FairSpecTwice ==
    /\ SpecTwice
    /\ WF_vars(Run)
    /\ \A c \in Clients : WF_vars(Return(c))

\* The queries and the other control calls of one supervisor while the feed
\* submits few events of one shard and sinks fail.
QueryCmds(c) ==
    {SimpleCmd(k, c) : k \in {"vwCmdGetVbuckets", "vwCmdGetStats", "vwCmdClose"}}
      \cup {Cmd("vwCmdAddEngines", c, {1, 2}, Addrs, <<>>, <<>>)}
SupQueryCmds == QueryCmds("sup")

NextQuery ==
    \/ (nEvents < MaxFewEvents /\ Event(FewEvents, mutChanSizeOne))
    \/ (nEvents < MaxFewEvents /\ SyncPulse(mutChanSizeOne))
    \/ Post("sup", SupQueryCmds, mutChanSizeOne)
    \/ Return("sup")
    \/ Run

SpecQuery == Init /\ [][NextQuery]_vars

FairSpecQuery ==
    /\ SpecQuery
    /\ WF_vars(Run)
    /\ WF_vars(Return("sup"))

\* The events of a shard that is opened, gets snapshot markers and mutations
\* and is ended (by a StreamEnd of any opaque), and the opening of a second
\* shard.
StatEvents ==
    {m \in AllEvents :
        /\ m.Opaque = 1 \/ m.Opcode = "DCP_STREAMEND"
        /\ m.VBuuid = 1 /\ m.Status = "SUCCESS"
        /\ m.CollectionID \in {0, 1}
        /\ m.Seqno = (IF m.Opcode = "DCP_MUTATION" THEN 2 ELSE 1)
        /\ IF m.VBucket = 1
           THEN m.Opcode \in {"DCP_STREAMREQ", "DCP_SNAPSHOT", "DCP_OSO_SNAPSHOT",
                              "DCP_MUTATION", "DCP_STREAMEND"}
           ELSE m.Opcode = "DCP_STREAMREQ"}

\* The queries of the supervisor, and the call that installs the engines.
StatCmds(c) ==
    {SimpleCmd(k, c) : k \in {"vwCmdGetVbuckets", "vwCmdGetStats"}}
      \cup {Cmd("vwCmdAddEngines", c, {1, 2}, Addrs, <<>>, <<>>)}
SupStatCmds == StatCmds("sup")

NextStats ==
    \/ Event(StatEvents, mutChanSizeOne)
    \/ SyncPulse(mutChanSizeOne)
    \/ (nCmds < MaxFewCmds /\ Post("sup", SupStatCmds, mutChanSizeOne))
    \/ Return("sup")
    \/ Run

SpecStats == Init /\ [][NextStats]_vars

\* The installs of two engines of one collection that share a sink, with
\* both sinks or with the shared sink only as candidates.
SharedCmds(c) ==
    {Cmd("vwCmdAddEngines", c, {1, 4}, eps, <<>>, <<>>) : eps \in {{"A"}, Addrs}}
      \cup {SimpleCmd("vwCmdClose", c)}
SupSharedCmds == SharedCmds("sup")

NextShared ==
    \/ (nEvents < MaxFewEvents /\ Event(FewEvents, mutChanSizeOne))
    \/ (nEvents < MaxFewEvents /\ SyncPulse(mutChanSizeOne))
    \/ Post("sup", SupSharedCmds, mutChanSizeOne)
    \/ Return("sup")
    \/ Run

SpecShared == Init /\ [][NextShared]_vars

\* A supervisor that installs engines, queries, and removes engines with a
\* list of collection ids shorter than the list of engines.
PanicCmds(c) ==
    {SimpleCmd("vwCmdGetVbuckets", c),
     Cmd("vwCmdAddEngines", c, {1, 2}, Addrs, <<>>, <<>>),
     Cmd("vwCmdDelEngines", c, {}, {}, <<1, 2>>, <<1>>)}
SupPanicCmds == PanicCmds("sup")

NextPanic ==
    \/ (nEvents < MaxFewEvents /\ Event(FewEvents, mutChanSizeOne))
    \/ (nEvents < MaxFewEvents /\ SyncPulse(mutChanSizeOne))
    \/ Post("sup", SupPanicCmds, mutChanSizeOne)
    \/ Return("sup")
    \/ Run

SpecPanic == Init /\ [][NextPanic]_vars

FairSpecPanic ==
    /\ SpecPanic
    /\ WF_vars(Run)
    /\ WF_vars(Return("sup"))

\* The feed filling the data queue, and a supervisor that closes.
NextFull ==
    \/ Event(FewEvents, mutChanSize)
    \/ SyncPulse(mutChanSize)
    \/ (nCmds < MaxFewCmds /\ Post("sup", SupCloseCmd, mutChanSize))
    \/ Return("sup")
    \/ Run

SpecFull == Init /\ [][NextFull]_vars

\* The scheduler runs the worker's goroutine and the goroutine of the caller
\* whenever they can take a step.
FairSpecFull ==
    /\ SpecFull
    /\ WF_vars(Run)
    /\ WF_vars(Return("sup"))

(***************************************************************************)
(* consolideIndexStatus: the loop over statuses; each step merges the next *)
(* entry of the list into statusMap.                                       *)
(***************************************************************************)
ConsolideIndexStatus ==
    /\ statuses # <<>>
    /\ LET status == Head(statuses)
       IN  \/ /\ status.InstId \notin DOMAIN statusMap
              /\ statusMap' = MapPut(statusMap, status.InstId, status)
           \/ /\ status.InstId \in DOMAIN statusMap
              /\ statusMap' =
                    [statusMap EXCEPT ![status.InstId].Status =
                                         ConsolideStateStr(@, status.Status)]
    /\ statuses' = Tail(statuses)
    /\ UNCHANGED <<workerVars, sbch, datach, respch, waiting, ret, nEvents, nCmds, out,
                   errlog, dataSince, pendingAtTop, queuedBefore>>

InitStatus ==
    /\ WorkerInit
    /\ statuses \in StatusLists
    /\ statusMap = EmptyMap

NextStatus == ConsolideIndexStatus

\* The consolidation of every list of statuses, with no worker running.
SpecStatus == InitStatus /\ [][NextStatus]_vars

(***************************************************************************)
(* The properties.                                                         *)
(***************************************************************************)
\* This step is run() taking an event off datach and handling it.
EventStep ==
    /\ pc = "wait"
    /\ datach # <<>>
    /\ Head(datach).cmd = "vwCmdEvent"
    /\ datach' = Tail(datach)

\* The event an EventStep handles.
StepEvent == Head(datach).m

C2_SentOnlyWhileOpen ==
    \A i \in 1..Len(out) :
        out[i].sent # {} => out[i].kind = "StreamEnd" \/ out[i].vb \in DOMAIN vbuckets

\* C2: a StreamBegin is sent for a shard the step opens, a StreamEnd for a
\* shard that was Open, every other signal or payload for a shard that is
\* Open before and after the step; the exception is the StreamBegin of a
\* stream request that failed, which is sent although the shard is not Open.
C2_SentOnlyWhileOpenOrFailure ==
    [][\A i \in 1..Len(out') :
          out'[i].sent # {} =>
             CASE out'[i].kind = "StreamBeginFailure" ->
                     EventStep /\ StepEvent.Status # "SUCCESS"
               [] out'[i].kind = "StreamBegin" ->
                     out'[i].vb \notin DOMAIN vbuckets /\ out'[i].vb \in DOMAIN vbuckets'
               [] out'[i].kind = "StreamEnd" -> out'[i].vb \in DOMAIN vbuckets
               [] OTHER ->
                     out'[i].vb \in DOMAIN vbuckets /\ out'[i].vb \in DOMAIN vbuckets']_vars

\* A snapshot marker of an Open shard has been sent to a sink.
C2_Witness ==
    \E i \in 1..Len(out) :
        /\ out[i].kind = "Snapshot"
        /\ out[i].sent # {}
        /\ out[i].vb \in DOMAIN vbuckets
        /\ vbuckets[out[i].vb].sshotCount = 1

\* The deferred function has run; finch may not be closed yet.
Terminating == pc \in {"fin", "setclosed", "stopped"}

\* C3: the step that follows a handled Close makes exactly one StreamEnd
\* broadcast per Open shard and none for any other shard, while the
\* termination channel is open and IsClosed is false; nothing is published
\* from then on, and termination is signalled only after that step.
C3_StreamEndPerOpenShardBeforeTermination ==
    [][/\ (pc = "defer" /\ pc' # "defer") =>
             /\ pc' = "fin"
             /\ Len(out') = Cardinality(DOMAIN vbuckets)
             /\ \A i \in 1..Len(out') :
                   out'[i].kind = "StreamEnd" /\ out'[i].vb \in DOMAIN vbuckets
             /\ \A vb \in DOMAIN vbuckets : EndsIn(out', vb) = 1
             /\ ~finch' /\ ~closed'
       /\ Terminating => out' = <<>>
       /\ (finch' \/ closed') => Terminating
       /\ closed' => finch']_vars

\* Close has been handled with two Open shards and both StreamEnd broadcasts
\* are made, termination not being signalled yet.
C3_Witness ==
    /\ pc = "fin"
    /\ ~recovered
    /\ ~finch
    /\ DOMAIN vbuckets = {1, 2}
    /\ Len(out) = 2
    /\ \A vb \in {1, 2} : EndsIn(out, vb) = 1

\* C4: whether the second Close is queued before the first is handled or is
\* called after it, no shard gets more than one StreamEnd, every shard that was
\* Open when the worker terminated got exactly one, and every caller that
\* waits for its reply returns (unless the process has exited).
C4_CloseIdempotent ==
    /\ [](\A vb \in Vbs : endCount[vb] <= 1)
    /\ [](Terminating => \A vb \in DOMAIN vbuckets : endCount[vb] = 1)
    /\ \A c \in Clients : (waiting[c] ~> (~waiting[c] \/ pc = "exited"))

\* Both callers called Close, the first one's was handled and the second
\* one's was left in the queue: the second caller has returned with
\* ErrorClosed, and the Open shard has one StreamEnd.
C4_Witness ==
    /\ pc = "stopped"
    /\ ~recovered
    /\ sbch # <<>>
    /\ Head(sbch).cmd = "vwCmdClose" /\ Head(sbch).from = "closer"
    /\ ret["sup"] = "ok"
    /\ ret["closer"] = "ErrorClosed"
    /\ \E vb \in DOMAIN vbuckets : endCount[vb] = 1

\* This step is run() taking a command off sbch and handling it.
CommandStep ==
    /\ pc \in {"top", "wait"}
    /\ sbch # <<>>
    /\ sbch' = Tail(sbch)

\* The command a CommandStep handles.
StepCommand == Head(sbch)

\* The addresses referenced by an engine of the map m.
Referenced(m) == {a \in Addrs : \E cid \in DOMAIN m : \E e \in m[cid] : a \in EngineEndpoints(e)}

\* C5 as stated: after a step that changes the engine map the endpoint table
\* holds exactly the addresses that an installed engine references and that
\* are in the candidate set of the most recent Install/Replace Engines call
\* (an Install/Replace Engines call that supplies no candidate set is left out).
C5_EndpointsExactAfterEngineChange ==
    [][(/\ engines' # engines
        /\ ~(CommandStep /\ StepCommand.cmd = "vwCmdAddEngines" /\ StepCommand.eps = NilEps))
          => endpoints' = Referenced(engines') \cap candidates']_vars

\* C6: a data event is handled in one step that leaves the engine map alone,
\* transforms with exactly the engines the map held for the event's collection
\* before the step and sends only to addresses of the endpoint table as it
\* was before the step; Install/Replace Engines is one step that handles no
\* data event, publishes nothing and leaves the whole new map, holding the
\* supplied engines and none of the old ones, and the table computed from it.
C6_InstallAtomicForEvents ==
    [][/\ EventStep =>
             /\ engines' = engines
             /\ endpoints' \subseteq endpoints
             /\ \A i \in 1..Len(out') :
                   /\ out'[i].sent \subseteq endpoints
                   /\ out'[i].kind = "KeyVersions" =>
                         /\ StepEvent.CollectionID \in DOMAIN engines
                         /\ out'[i].xf = engines[StepEvent.CollectionID]
       /\ (CommandStep /\ StepCommand.cmd = "vwCmdAddEngines") =>
             /\ DOMAIN engines' = {EngineCid(e) : e \in StepCommand.engs}
             /\ \A cid \in DOMAIN engines' :
                   engines'[cid] = {e \in StepCommand.engs : EngineCid(e) = cid}
             /\ endpoints' = IF StepCommand.eps = NilEps THEN endpoints
                             ELSE Referenced(engines') \cap StepCommand.eps
             /\ out' = <<>>
             /\ UNCHANGED <<datach, vbuckets>>]_vars

\* The engines were installed and then replaced, and a mutation was then
\* transformed by the one engine of the second call.
C6_Witness ==
    /\ nCmds = 2
    /\ sbch = <<>>
    /\ ~waiting["sup"]
    /\ engines = AddEnginesMap({2})
    /\ candidates = Addrs
    /\ \E i \in 1..Len(out) : out[i].kind = "KeyVersions" /\ out[i].xf = {2}

\* C7: while a command is at the head of the command queue the loop takes at
\* most one message off the data queue before it handles the command.
C7_AtMostOneEventBeforeCommand == dataSince <= 1

\* A command is waiting and one message has been taken off the data queue
\* since it was at the head of the queue.
C7_Witness ==
    /\ dataSince = 1
    /\ sbch # <<>>
    /\ pc = "top"

\* C8 as stated: whenever the worker has stopped processing events, for
\* whatever reason, every shard that was Open has had its StreamEnd.
C8_StreamEndWheneverStopped ==
    (Terminating \/ pc = "exited") => \A vb \in DOMAIN vbuckets : endCount[vb] = 1

\* C8: when the worker has stopped because Close was handled or because a
\* fault in the loop was recovered, every shard that was Open has had one
\* StreamEnd; when the process exited on a mismatch, no Open shard has had one.
C8_StreamEndUnlessExited ==
    /\ Terminating => \A vb \in DOMAIN vbuckets : endCount[vb] = 1
    /\ pc = "exited" => \A vb \in DOMAIN vbuckets : endCount[vb] = 0

\* The loop crashed with two shards Open, was recovered, and has terminated.
C8_Witness ==
    /\ pc = "stopped"
    /\ recovered
    /\ DOMAIN vbuckets = {1, 2}
    /\ \A vb \in {1, 2} : endCount[vb] = 1

\* The event is handled for a shard that is Open.
OnOpenShard == EventStep /\ StepEvent.VBucket \in DOMAIN vbuckets

\* C9 as stated: a data event for an Open shard whose epoch id (vbuuid)
\* differs from the one recorded for the shard terminates the process (unless
\* handling it crashes the loop first).
C9_EpochMismatchExits ==
    [][(/\ OnOpenShard
        /\ StepEvent.Opcode \notin {"DCP_STREAMREQ", "DCP_STREAMEND"}
        /\ StepEvent.VBuuid # vbuckets[StepEvent.VBucket].vbuuid)
          => pc' = "exited" \/ recovered']_vars

\* C9: the process is terminated when an event other than a StreamEnd or a
\* failed stream request arrives for an Open shard with an opaque (correlation
\* id) that differs from the one recorded for the shard, unless handling it
\* crashes the loop first; the process is terminated in no other case, the
\* epoch id of the event is not compared.
C9_OpaqueMismatchExits ==
    [][/\ (/\ OnOpenShard
           /\ StepEvent.Opcode # "DCP_STREAMEND"
           /\ ~(StepEvent.Opcode = "DCP_STREAMREQ" /\ StepEvent.Status # "SUCCESS")
           /\ StepEvent.Opaque # vbuckets[StepEvent.VBucket].opaque)
             => pc' = "exited" \/ (pc' = "defer" /\ recovered')
       /\ (pc' = "exited" /\ pc # "exited") =>
             /\ OnOpenShard
             /\ StepEvent.Opcode # "DCP_STREAMEND"
             /\ StepEvent.Opaque # vbuckets[StepEvent.VBucket].opaque]_vars

\* The process has exited on an opaque mismatch.
C9_Witness ==
    /\ pc = "exited"
    /\ "mismatch with vbucket" \in errlog
    /\ DOMAIN vbuckets = {1}

\* The event is a protocol anomaly: a duplicate StreamBegin for an Open
\* shard, or another event for a shard with no Open stream.
Anomaly ==
    /\ EventStep
    /\ IF StepEvent.Opcode = "DCP_STREAMREQ"
       THEN StepEvent.Status = "SUCCESS" /\ StepEvent.VBucket \in DOMAIN vbuckets
       ELSE StepEvent.VBucket \notin DOMAIN vbuckets

\* The step drops the event: nothing is published, the shards are as they
\* were, and the loop goes on.
Dropped ==
    /\ pc' = "top"
    /\ out' = <<>>
    /\ UNCHANGED <<vbuckets, engines, endpoints, finch, closed, recovered>>

FailedBefore(o, i) == UNION {o[j].failed : j \in 1..(i - 1)}

\* C11: in every step that publishes, each broadcast invokes Send on every
\* sink that is in the endpoint table when the broadcast starts and each
\* mutation delivery on every sink of the table that got data, whichever
\* of these Sends fail; the sinks whose Send failed, and only those, are
\* out of the endpoint table after the step.
C11_FailedSinkEvictedOthersReceive ==
    [][\A i \in 1..Len(out') :
          /\ out'[i].failed \subseteq out'[i].sent
          /\ out'[i].sent =
                IF out'[i].kind = "KeyVersions"
                THEN out'[i].data \cap endpoints
                ELSE endpoints \ FailedBefore(out', i)
          /\ endpoints' = endpoints \ FailedIn(out')]_vars

\* A broadcast to two sinks in which one Send failed: the other sink
\* received the payload and is the only one left in the table.
C11_Witness ==
    \E i \in 1..Len(out) :
        /\ out[i].kind # "KeyVersions"
        /\ out[i].sent = Addrs
        /\ Cardinality(out[i].failed) = 1
        /\ endpoints = Addrs \ out[i].failed

\* C12: Send is never invoked on an address whose Send has failed, neither
\* later in the same step nor in a later step, until an Install/Replace
\* Engines puts the address back into the endpoint table; such an address is
\* not in the endpoint table meanwhile.
C12_NoSendAfterFailure ==
    [][/\ \A i \in 1..Len(out') :
             out'[i].sent \cap (evicted \cup FailedBefore(out', i)) = {}
       /\ evicted' \cap endpoints' = {}
       /\ (evicted \ evicted' # {}) =>
             /\ CommandStep
             /\ StepCommand.cmd = "vwCmdAddEngines"
             /\ evicted \ evicted' \subseteq StepCommand.eps]_vars

\* A sink failed earlier and a later mutation that has data for it is
\* delivered to the other sink only.
C12_Witness ==
    \E i \in 1..Len(out) :
        /\ out[i].kind = "KeyVersions"
        /\ evicted \cap out[i].data # {}
        /\ out[i].failed = {}
        /\ out[i].sent # {}

MutationStep ==
    /\ OnOpenShard
    /\ StepEvent.Opcode \in MutationOps

\* C14: a mutation, deletion or expiration of an Open shard whose collection
\* has no installed engine sets the shard's sequence number to the event's
\* and makes exactly one broadcast, of an update-sequence-only signal, to
\* every endpoint of the table, with no engine transform invoked.
C14_UpdateSeqnoWhenNoEngine ==
    [][(MutationStep /\ StepEvent.CollectionID \notin DOMAIN engines) =>
          /\ vbuckets'[StepEvent.VBucket].seqno = StepEvent.Seqno
          /\ vbuckets'[StepEvent.VBucket].mutationCount =
                vbuckets[StepEvent.VBucket].mutationCount + 1
          /\ Len(out') = 1
          /\ out'[1].kind = "UpdateSeqno"
          /\ out'[1].vb = StepEvent.VBucket
          /\ out'[1].sent = endpoints
          /\ out'[1].xf = {}
          /\ ~recovered']_vars

\* Engines are installed for collection 1 only and a mutation of another
\* collection has advanced the shard to its sequence number and was
\* broadcast as an update-sequence-only signal.
C14_Witness ==
    /\ DOMAIN engines = {1}
    /\ 1 \in DOMAIN vbuckets
    /\ vbuckets[1].seqno = 2
    /\ vbuckets[1].mutationCount = 1
    /\ Len(out) = 1
    /\ out[1].kind = "UpdateSeqno"
    /\ out[1].sent = Addrs

\* The engines the pairs of a Remove Engines command list for collection cid.
ListedFor(msg, cid) == {msg.keys[i] : i \in {j \in 1..Len(msg.keys) : msg.cids[j] = cid}}

\* C15: Remove Engines drops a collection from the engine map exactly when
\* it removes the collection's last engine and otherwise leaves the
\* collection with its remaining engines; the engine map changes at no step
\* other than Install/Replace Engines and Remove Engines; a mutation of a
\* collection that is not in the map yields one update-sequence-only signal
\* and no transform, and a mutation of a collection that is in the map is
\* transformed by exactly the collection's engines and delivered to the
\* sinks of the table that got data (unless a transform crashes the loop).
C15_MutationsAfterRemoveEngines ==
    [][/\ (CommandStep /\ StepCommand.cmd = "vwCmdDelEngines") =>
             /\ DOMAIN engines' \subseteq DOMAIN engines
             /\ \A cid \in DOMAIN engines :
                   IF engines[cid] \subseteq ListedFor(StepCommand, cid)
                   THEN cid \notin DOMAIN engines'
                   ELSE /\ cid \in DOMAIN engines'
                        /\ engines'[cid] = engines[cid] \ ListedFor(StepCommand, cid)
       /\ engines' # engines =>
             /\ CommandStep
             /\ StepCommand.cmd \in {"vwCmdAddEngines", "vwCmdDelEngines"}
       /\ MutationStep =>
             IF StepEvent.CollectionID \in DOMAIN engines
             THEN \/ recovered' /\ ~recovered /\ out' = <<>>
                  \/ /\ Len(out') = 1
                     /\ out'[1].kind = "KeyVersions"
                     /\ out'[1].xf = engines[StepEvent.CollectionID]
                     /\ out'[1].xf # {}
                     /\ out'[1].data \subseteq
                           UNION {EngineEndpoints(e) : e \in out'[1].xf}
                     /\ out'[1].sent = out'[1].data \cap endpoints
             ELSE /\ Len(out') = 1
                  /\ out'[1].kind = "UpdateSeqno"
                  /\ out'[1].xf = {}]_vars

\* The engines of collections 1 and 2 were installed, the only engine of
\* collection 1 was removed, and a mutation of collection 1 then yielded the
\* update-sequence-only signal.
C15_Witness ==
    /\ nCmds = 2
    /\ engines = AddEnginesMap({3})
    /\ candidates = Addrs
    /\ waiting["sup"]
    /\ respch["sup"].kind = "nil"
    /\ Len(out) = 1
    /\ out[1].kind = "UpdateSeqno"
    /\ out[1].sent = {"A"}

\* The (engineId, collectionId) pairs of the engine map m.
Pairs(m) == {p \in (UNION {m[cid] : cid \in DOMAIN m}) \X DOMAIN m : p[1] \in m[p[2]]}

\* The (engineId, collectionId) pairs a Remove Engines command lists.
Listed(msg) == {<<msg.keys[i], msg.cids[i]>> : i \in 1..Len(msg.keys)}

C17_InstallReplacesEngineMap ==
    [][(CommandStep /\ StepCommand.cmd = "vwCmdAddEngines") =>
          /\ Pairs(engines') = {<<e, EngineCid(e)>> : e \in StepCommand.engs}
          /\ \A cid \in DOMAIN engines' : engines'[cid] # {}]_vars

\* Engines of two collections were installed and then replaced by the one
\* engine 2: nothing of the first map is left.
C17_Witness ==
    /\ nCmds = 2
    /\ ~waiting["sup"]
    /\ ret["sup"] = "ok"
    /\ sbch = <<>>
    /\ engines = AddEnginesMap({2})
    /\ endpoints = {"B"}
    /\ candidates = Addrs

\* C18: the reply of Install/Replace Engines is a map whose keys are the
\* shards Open when the command is handled and whose values are their
\* sequence numbers at that moment.
C18_InstallRepliesSeqnos ==
    [][(CommandStep /\ StepCommand.cmd = "vwCmdAddEngines") =>
          /\ respch'[StepCommand.from].kind = "cseqnos"
          /\ DOMAIN respch'[StepCommand.from].seqnos = DOMAIN vbuckets
          /\ \A vb \in DOMAIN vbuckets :
                respch'[StepCommand.from].seqnos[vb] = vbuckets[vb].seqno
          /\ vbuckets' = vbuckets]_vars

\* Install/Replace Engines was handled with shard 1 Open at sequence number
\* 2 after one mutation, and the reply says so.
C18_Witness ==
    /\ waiting["sup"]
    /\ respch["sup"].kind = "cseqnos"
    /\ DOMAIN respch["sup"].seqnos = {1}
    /\ respch["sup"].seqnos[1] = 2
    /\ 1 \in DOMAIN vbuckets
    /\ vbuckets[1].mutationCount = 1

\* The feed's call (Event or SyncPulse) returns in this step.
FeedReturns == nEvents' = nEvents + 1

\* The worker has left its loop or the process has exited.
LoopLeft == pc \in {"defer", "fin", "setclosed", "stopped", "exited"}

FailsAtOnce(c) ==
    /\ ~waiting[c] /\ ~waiting'[c]
    /\ ret'[c] = "ErrorClosed"
    /\ UNCHANGED <<sbch, datach, respch>>

\* C20: once the worker has terminated, every call of the feed (Event,
\* SyncPulse) and every control call (GetVbuckets, AddEngines, DeleteEngines,
\* GetStatistics, ResetConfig, Close) can be made and returns ErrorClosed at
\* once: nothing is queued, no caller is left waiting and no reply is given.
C20_CallsOnTerminatedWorkerFail ==
    /\ [][pc = "stopped" =>
             /\ FeedReturns => ret'["feed"] = "ErrorClosed" /\ datach' = datach
             /\ nCmds' = nCmds + 1 => FailsAtOnce("sup")
             /\ sbch' = sbch
             /\ \A c \in Clients : respch'[c] # NoResp => respch'[c] = respch[c]
             /\ \A c \in Clients : ret'[c] = "ok" => ret[c] = "ok" \/ waiting[c]]_vars
    /\ [](pc = "stopped" =>
             /\ finch /\ closed
             /\ nEvents < MaxFewEvents =>
                   /\ ENABLED SyncPulse(mutChanSizeOne)
                   /\ ENABLED Event(FewEvents, mutChanSizeOne)
             /\ MayCall("sup") =>
                   \A msg \in SupCmds("sup") : ENABLED Post("sup", {msg}, mutChanSizeOne))

\* Close was handled and answered and the worker has terminated; GetVbuckets
\* called after that has failed, and so has an Event.
C20_Witness ==
    /\ pc = "stopped"
    /\ ~recovered
    /\ nCmds = 2
    /\ sbch = <<>>
    /\ ret["sup"] = "ErrorClosed"
    /\ ret["feed"] = "ErrorClosed"
    /\ datach = <<>>

\* C21 as stated: when the Close of the caller that calls nothing but Close
\* has returned without error, every shard that was Open has had its
\* StreamEnd and the worker reports terminated.
C21_CloseReturnsAfterTermination ==
    ret["closer"] = "ok" =>
        /\ closed
        /\ \A vb \in DOMAIN vbuckets : endCount[vb] = 1

\* The elements of the list l.
Range(l) == {l[i] : i \in 1..Len(l)}

\* C22: the reply of GetVbuckets lists every shard that is Open when the
\* command is handled, each once, and no other shard; a shard becomes Open
\* exactly when a successful StreamBegin is handled for it while it is not
\* Open, and stops being Open exactly when a StreamEnd is handled for it.
C22_GetVbucketsListsOpenShards ==
    [][/\ (CommandStep /\ StepCommand.cmd = "vwCmdGetVbuckets") =>
             /\ respch'[StepCommand.from].kind = "vbuckets"
             /\ Range(respch'[StepCommand.from].vbs) = DOMAIN vbuckets
             /\ Len(respch'[StepCommand.from].vbs) = Cardinality(DOMAIN vbuckets)
             /\ vbuckets' = vbuckets
       /\ \A vb \in Vbs :
             /\ (vb \notin DOMAIN vbuckets /\ vb \in DOMAIN vbuckets') <=>
                   /\ EventStep
                   /\ StepEvent.VBucket = vb
                   /\ StepEvent.Opcode = "DCP_STREAMREQ"
                   /\ StepEvent.Status = "SUCCESS"
                   /\ vb \notin DOMAIN vbuckets
             /\ (vb \in DOMAIN vbuckets /\ vb \notin DOMAIN vbuckets') <=>
                   /\ EventStep
                   /\ StepEvent.VBucket = vb
                   /\ StepEvent.Opcode = "DCP_STREAMEND"
                   /\ vb \in DOMAIN vbuckets]_vars

\* Two shards were opened and the first was ended; GetVbuckets, handled
\* after that, lists the second shard only.
C22_Witness ==
    /\ waiting["sup"]
    /\ respch["sup"].kind = "vbuckets"
    /\ respch["sup"].vbs = <<2>>
    /\ DOMAIN vbuckets = {2}
    /\ endCount[1] = 1

\* The records of the given kind for shard vb among the records o.
KindIn(o, kind, vb) == Cardinality({i \in 1..Len(o) : o[i].kind = kind /\ o[i].vb = vb})

\* C23: the reply of GetStatistics has one entry, under the decimal shard
\* number, for each shard Open when the command is handled and for no other,
\* holding the shard's three counters; the counters of a shard are zero when
\* it is opened, and from then on each step adds to the mutation count one
\* for a mutation/deletion/expiration it handles for the shard, to the snapshot
\* count the snapshot markers it publishes for the shard and to the sync count
\* the sync signals it publishes for the shard.
C23_StatisticsCountEvents ==
    [][/\ (CommandStep /\ StepCommand.cmd = "vwCmdGetStats") =>
             /\ respch'[StepCommand.from].kind = "stats"
             /\ DOMAIN respch'[StepCommand.from].stats = {Itoa(vb) : vb \in DOMAIN vbuckets}
             /\ \A vb \in DOMAIN vbuckets :
                   respch'[StepCommand.from].stats[Itoa(vb)] =
                      [syncs |-> vbuckets[vb].syncCount,
                       snapshots |-> vbuckets[vb].sshotCount,
                       mutations |-> vbuckets[vb].mutationCount]
             /\ vbuckets' = vbuckets
       /\ \A vb \in DOMAIN vbuckets' :
             IF vb \notin DOMAIN vbuckets
             THEN /\ vbuckets'[vb].mutationCount = 0
                  /\ vbuckets'[vb].sshotCount = 0
                  /\ vbuckets'[vb].syncCount = 0
             ELSE /\ vbuckets'[vb].mutationCount = vbuckets[vb].mutationCount
                        + (IF MutationStep /\ StepEvent.VBucket = vb THEN 1 ELSE 0)
                  /\ vbuckets'[vb].sshotCount = vbuckets[vb].sshotCount
                        + KindIn(out', "Snapshot", vb)
                  /\ vbuckets'[vb].syncCount = vbuckets[vb].syncCount
                        + KindIn(out', "Sync", vb)]_vars

\* A shard was opened and has had a snapshot marker and a sync signal, and
\* the reply of GetStatistics says so.
C23_Witness ==
    /\ waiting["sup"]
    /\ respch["sup"].kind = "stats"
    /\ DOMAIN respch["sup"].stats = {"1"}
    /\ respch["sup"].stats["1"] = [syncs |-> 1, snapshots |-> 1, mutations |-> 0]

\* This step is run() taking a sync pulse off datach and handling it.
SyncStep ==
    /\ pc = "wait"
    /\ datach # <<>>
    /\ Head(datach).cmd = "vwCmdSyncPulse"
    /\ datach' = Tail(datach)

\* C24: the step that handles a sync pulse makes exactly one Sync broadcast
\* for every shard that is Open and none for any other shard, publishes
\* nothing else, and leaves the set of Open shards and every shard's epoch
\* id, sequence number, mutation count and snapshot count as they were; no
\* other step makes a Sync broadcast.
C24_SyncPulsePerOpenShard ==
    [][/\ SyncStep =>
             /\ Len(out') = Cardinality(DOMAIN vbuckets)
             /\ \A i \in 1..Len(out') :
                   out'[i].kind = "Sync" /\ out'[i].vb \in DOMAIN vbuckets
             /\ \A vb \in DOMAIN vbuckets : KindIn(out', "Sync", vb) = 1
             /\ DOMAIN vbuckets' = DOMAIN vbuckets
             /\ \A vb \in DOMAIN vbuckets :
                   vbuckets'[vb] = [vbuckets[vb] EXCEPT !.syncCount = @ + 1]
             /\ pc' = "top"
             /\ UNCHANGED <<engines, sbch>>
       /\ (\E i \in 1..Len(out') : out'[i].kind = "Sync") => SyncStep]_vars

\* A sync pulse was handled with two shards Open at sequence number 1: one
\* Sync each, the sequence numbers as they were.
C24_Witness ==
    /\ Len(out) = 2
    /\ \A vb \in {1, 2} : KindIn(out, "Sync", vb) = 1
    /\ DOMAIN vbuckets = {1, 2}
    /\ \A vb \in {1, 2} : vbuckets[vb].syncCount = 1 /\ vbuckets[vb].seqno = 1

\* The step handles a successful StreamBegin for a shard that is Open.
DuplicateBegin ==
    /\ OnOpenShard
    /\ StepEvent.Opcode = "DCP_STREAMREQ"
    /\ StepEvent.Status = "SUCCESS"

\* C25: a successful StreamBegin for a shard that is already Open is logged
\* as a duplicate and changes nothing: every shard keeps its epoch id,
\* sequence number and counters, the set of Open shards, the engine map and
\* the endpoint table are as they were, and nothing is published; the loop
\* goes on when the opaque of the event is the one recorded for the shard
\* (the process exits otherwise).
C25_DuplicateStreamBeginRejected ==
    [][DuplicateBegin =>
          /\ vbuckets' = vbuckets
          /\ out' = <<>>
          /\ "duplicate OpStreamRequest" \in errlog'
          /\ UNCHANGED <<engines, endpoints, evicted, endCount, recovered, finch, closed>>
          /\ pc' = IF StepEvent.Opaque = vbuckets[StepEvent.VBucket].opaque
                   THEN "top" ELSE "exited"]_vars

\* A shard was opened and advanced by a mutation, and a second StreamBegin
\* for it was then rejected: the shard is as the mutation left it.
C25_Witness ==
    /\ "duplicate OpStreamRequest" \in errlog
    /\ pc = "top"
    /\ out = <<>>
    /\ 1 \in DOMAIN vbuckets
    /\ vbuckets[1].vbuuid = 1
    /\ vbuckets[1].seqno = 2
    /\ vbuckets[1].mutationCount = 1

\* The step handles a StreamBegin that carries a failure status.
FailedBegin ==
    /\ EventStep
    /\ StepEvent.Opcode = "DCP_STREAMREQ"
    /\ StepEvent.Status # "SUCCESS"

\* C26: a StreamBegin with a failure status makes exactly one broadcast, of
\* the failure signal for the shard it names, to every endpoint of the table,
\* and leaves the set of Open shards and the state of every Open shard as
\* they were, whether or not the shard it names is Open; the loop goes on,
\* and no other step publishes a failure signal.
C26_FailedStreamBeginKeepsState ==
    [][/\ FailedBegin =>
             /\ vbuckets' = vbuckets
             /\ Len(out') = 1
             /\ out'[1].kind = "StreamBeginFailure"
             /\ out'[1].vb = StepEvent.VBucket
             /\ out'[1].sent = endpoints
             /\ pc' = "top"
             /\ UNCHANGED <<engines, endCount, recovered, finch, closed>>
       /\ (\E i \in 1..Len(out') : out'[i].kind = "StreamBeginFailure") => FailedBegin]_vars

\* A shard was opened and advanced by a mutation, and a StreamBegin with a
\* failure status naming it was then published to both sinks: the shard is
\* Open as the mutation left it.
C26_Witness ==
    /\ Len(out) = 1
    /\ out[1].kind = "StreamBeginFailure"
    /\ out[1].vb = 1
    /\ out[1].sent = Addrs
    /\ 1 \in DOMAIN vbuckets
    /\ vbuckets[1].mutationCount = 1
    /\ vbuckets[1].seqno = 2

\* The step handles a StreamEnd event.
EndStep == EventStep /\ StepEvent.Opcode = "DCP_STREAMEND"

\* C27: a StreamEnd event for an Open shard, whatever its opaque, makes
\* exactly one StreamEnd broadcast for the shard to every endpoint of the
\* table and removes the shard and nothing else from the Open shards; a
\* StreamEnd for a shard that is not Open publishes nothing and leaves the
\* shards, the engine map and the endpoint table as they were; the loop goes
\* on in both cases, and a shard that was ended and not opened again is in no
\* reply of GetVbuckets or GetStatistics.
C27_StreamEndRemovesShard ==
    [][/\ EndStep =>
             /\ IF StepEvent.VBucket \in DOMAIN vbuckets
                THEN /\ Len(out') = 1
                     /\ out'[1].kind = "StreamEnd"
                     /\ out'[1].vb = StepEvent.VBucket
                     /\ out'[1].sent = endpoints
                     /\ vbuckets' = MapDel(vbuckets, StepEvent.VBucket)
                     /\ endCount'[StepEvent.VBucket] = 1
                ELSE /\ out' = <<>>
                     /\ UNCHANGED <<vbuckets, endpoints, evicted, endCount>>
             /\ pc' = "top"
             /\ UNCHANGED <<engines, recovered, finch, closed>>
       /\ CommandStep =>
             \A vb \in Vbs :
                endCount[vb] >= 1 =>
                   /\ vb \notin DOMAIN vbuckets
                   /\ vb \notin Range(respch'[StepCommand.from].vbs)
                   /\ Itoa(vb) \notin DOMAIN respch'[StepCommand.from].stats]_vars

\* Two shards were opened and the first was ended by a StreamEnd event;
\* GetStatistics, handled after that, reports the second shard only.
C27_Witness ==
    /\ waiting["sup"]
    /\ respch["sup"].kind = "stats"
    /\ DOMAIN respch["sup"].stats = {"2"}
    /\ endCount[1] = 1
    /\ pc \in {"top", "wait"}

\* The signal published for an event of each opcode that carries no document.
SignalOf(op) ==
    CASE op = "DCP_SYSTEM_EVENT" -> "SystemEvent"
      [] op = "DCP_SEQNO_ADVANCED" -> "SeqnoAdvanced"
      [] op = "DCP_SNAPSHOT" -> "Snapshot"
      [] op = "DCP_OSO_SNAPSHOT" -> "OSOSnapshot"

C29_TransformErrorIsolated ==
    [][/\ (MutationStep /\ out' # <<>> /\ out'[1].kind = "KeyVersions" /\ out'[1].err # {}) =>
             /\ out'[1].xf = engines[StepEvent.CollectionID]
             /\ out'[1].ok \cup out'[1].err \subseteq out'[1].xf
             /\ out'[1].ok \cap out'[1].err = {}
             /\ out'[1].data = UNION {EngineEndpoints(e) : e \in out'[1].ok}
             /\ out'[1].sent = out'[1].data \cap endpoints
             /\ "TransformRoute" \in errlog'
             /\ pc' \in {"top", "exited"}
             /\ UNCHANGED <<recovered, finch, closed, engines>>
       /\ MutationStep =>
             /\ vbuckets'[StepEvent.VBucket].seqno = StepEvent.Seqno
             /\ vbuckets'[StepEvent.VBucket].mutationCount =
                   vbuckets[StepEvent.VBucket].mutationCount + 1
       /\ ("TransformRoute" \in errlog') =>
             /\ MutationStep
             /\ recovered' \/ out'[1].err # {}]_vars

\* The transform of engine 1 returned an error for a mutation and engine 2
\* of the same collection produced data: the payload went to the sink of
\* engine 2, and the shard advanced.
C29_Witness ==
    /\ Len(out) = 1
    /\ out[1].kind = "KeyVersions"
    /\ out[1].err = {1}
    /\ out[1].ok = {2}
    /\ out[1].xf = {1, 2}
    /\ out[1].sent = {"B"}
    /\ out[1].failed = {}
    /\ vbuckets[1].seqno = 2
    /\ vbuckets[1].mutationCount = 1
    /\ pc = "top"

\* C30: a mutation/deletion/expiration of an Open shard whose collection has
\* engines makes (unless a transform crashes the loop) one delivery in which
\* Send is invoked exactly once on each address that got data and is in the
\* endpoint table and on no other address, the payload for an address
\* aggregating the data of every engine of the collection that produced data
\* for that address.
C30_OneAggregateSendPerSink ==
    [][(MutationStep /\ StepEvent.CollectionID \in DOMAIN engines /\ ~recovered') =>
          /\ Len(out') = 1
          /\ out'[1].kind = "KeyVersions"
          /\ DOMAIN out'[1].sends = out'[1].sent
          /\ out'[1].sent = out'[1].data \cap endpoints
          /\ \A a \in out'[1].sent :
                /\ out'[1].sends[a] = 1
                /\ a \in endpoints
                /\ out'[1].parts[a] =
                      {e \in engines[StepEvent.CollectionID] :
                          e \in out'[1].ok /\ a \in EngineEndpoints(e)}
                /\ out'[1].parts[a] # {}
          /\ out'[1].failed \subseteq out'[1].sent]_vars

\* Engines 1 and 4 of one collection both produced data for sink A, and
\* engine 4 also for sink B, which is not in the endpoint table: one Send
\* was made, on A, with the data of both engines.
C30_Witness ==
    /\ Len(out) = 1
    /\ out[1].kind = "KeyVersions"
    /\ out[1].ok = {1, 4}
    /\ out[1].data = {"A", "B"}
    /\ candidates = {"A"}
    /\ out[1].sent = {"A"}
    /\ out[1].sends["A"] = 1
    /\ out[1].parts["A"] = {1, 4}
    /\ out[1].failed = {}

\* This step is the one in which run() panics.
PanicStep == ~recovered /\ recovered'

\* C31: a panic comes only while the loop handles an event or a command; it
\* is recovered: the process stays alive, the loop is left and nothing more
\* is taken from the queues or answered; the next step publishes exactly one
\* StreamEnd for every Open shard, and the worker then terminates; a caller
\* whose call was pending without a reply returns ErrorClosed, and calls made
\* after the termination fail at once.
C31_PanicRecoveredWorkerTerminates ==
    /\ [][/\ PanicStep => (EventStep \/ CommandStep) /\ pc' = "defer"
          /\ (recovered /\ pc = "defer" /\ pc' # "defer") =>
                /\ pc' = "fin"
                /\ Len(out') = Cardinality(DOMAIN vbuckets)
                /\ \A vb \in DOMAIN vbuckets : EndsIn(out', vb) = 1
          /\ recovered =>
                /\ ~(EventStep \/ CommandStep \/ SyncStep)
                /\ \A c \in Clients : respch'[c] # NoResp => respch'[c] = respch[c]
                /\ vbuckets' = vbuckets
          /\ (recovered /\ waiting["sup"] /\ respch["sup"] = NoResp /\ ~waiting'["sup"]) =>
                ret'["sup"] = "ErrorClosed"
          /\ (recovered /\ pc = "stopped" /\ nCmds' = nCmds + 1) => FailsAtOnce("sup")
          /\ (recovered /\ pc = "stopped" /\ FeedReturns) =>
                ret'["feed"] = "ErrorClosed" /\ datach' = datach]_vars
    /\ [](recovered => Alive /\ LoopLeft)
    /\ recovered ~> (pc = "stopped" /\ finch /\ closed)
    /\ (recovered /\ waiting["sup"]) ~> ~waiting["sup"]

\* A transform panicked while a call of the supervisor was pending in the
\* command queue: the Open shard has had its StreamEnd, the worker has
\* terminated, and the pending call has returned ErrorClosed.
C31_Witness ==
    /\ pc = "stopped"
    /\ recovered
    /\ engines # EmptyMap
    /\ sbch # <<>>
    /\ ~waiting["sup"]
    /\ ret["sup"] = "ErrorClosed"
    /\ 1 \in DOMAIN vbuckets
    /\ vbuckets[1].mutationCount = 1
    /\ endCount[1] = 1

\* The step has the effect of handling the data-queue message msg.
HandlesData(msg) ==
    IF msg.cmd = "vwCmdEvent"
    THEN \E r \in HandleEvent(msg.m) :
            /\ out' = r.out
            /\ endpoints' = r.endpoints
            /\ vbuckets' = (IF r.panic THEN r.vbuckets ELSE VbucketsAfterEvent(msg.m, r))
    ELSE /\ Len(out') = Cardinality(DOMAIN vbuckets)
         /\ \A i \in 1..Len(out') : out'[i].kind = "Sync"
         /\ \A vb \in DOMAIN vbuckets : vbuckets'[vb].syncCount = vbuckets[vb].syncCount + 1

\* C32: the data queue changes only by a submitted message joining its end
\* and by the worker taking the message at its head; the worker takes one
\* message in a step, and that step handles the message taken and no other:
\* nothing is published and no shard changes in any other step of the loop;
\* a step that handles a command leaves the data queue as it was.
C32_DataQueueHandledInArrivalOrder ==
    [][/\ datach' # datach =>
             \/ /\ FeedReturns
                /\ Len(datach') = Len(datach) + 1
                /\ SubSeq(datach', 1, Len(datach)) = datach
                /\ vbuckets' = vbuckets /\ out' = <<>>
             \/ /\ pc = "wait"
                /\ datach # <<>>
                /\ datach' = Tail(datach)
                /\ HandlesData(Head(datach))
       /\ (pc \in {"top", "wait"} /\ (vbuckets' # vbuckets \/ out' # <<>>)) =>
             datach # <<>> /\ datach' = Tail(datach)
       /\ CommandStep => datach' = datach]_vars

\* A StreamBegin and a mutation of the shard were queued, in that order,
\* with a command of the supervisor pending; the StreamBegin has been
\* handled and the mutation is still in the queue, not counted yet.
C32_Witness ==
    /\ pc = "top"
    /\ Len(datach) = 1
    /\ Head(datach).cmd = "vwCmdEvent"
    /\ Head(datach).m.Opcode = "DCP_MUTATION"
    /\ 1 \in DOMAIN vbuckets
    /\ vbuckets[1].mutationCount = 0
    /\ out # <<>>
    /\ out[1].kind = "StreamBegin"
    /\ sbch # <<>>
    /\ dataSince = 1

\* C33 as stated: no data-queue message is dequeued in an iteration while a
\* command that was queued at the top of the iteration is still unhandled.
C33_AllPendingCommandsBeforeData ==
    [][(EventStep \/ SyncStep) => pendingAtTop = 0]_vars

\* C33: at the top of an iteration no data-queue message is dequeued, and
\* when a command is queued there the loop handles the one at the head of
\* the command queue before it goes on to the main wait; it handles no more
\* than that one command at the top, so the commands queued behind it are
\* taken in the main wait, where the data queue is served as well.
C33_OneCommandBeforeData ==
    [][/\ pc = "top" => Len(datach') >= Len(datach)
       /\ (pc = "top" /\ sbch # <<>> /\ pc' # "top") => CommandStep
       /\ (pc = "top" /\ CommandStep) =>
             /\ pc' \in {"wait", "defer"}
             /\ pendingAtTop' = Len(sbch) - 1
       /\ (EventStep \/ SyncStep) => pendingAtTop <= Len(sbch)]_vars

\* Two commands were queued at the top of an iteration; the loop handled the
\* first and then took a data-queue message while the second was waiting.
C33_Witness ==
    /\ pc = "top"
    /\ pendingAtTop = 1
    /\ dataSince = 1
    /\ Len(sbch) = 1
    /\ waiting["closer"]
    /\ respch["sup"] # NoResp
    /\ out # <<>>

\* The event is handled, without a panic, for an Open shard whose recorded
\* opaque differs from the event's; the event neither begins nor ends a stream.
OpaqueMismatch ==
    /\ OnOpenShard
    /\ StepEvent.Opcode \notin {"DCP_STREAMREQ", "DCP_STREAMEND"}
    /\ StepEvent.Opaque # vbuckets[StepEvent.VBucket].opaque
    /\ ~recovered'

\* C34: the step that terminates the process on an opaque mismatch has
\* applied the event as handleEvent applies any event of the shard: a
\* mutation has set the sequence number and raised the mutation count, a
\* snapshot marker has raised the snapshot count, a system event or
\* sequence-advanced event has set the sequence number, and the publication
\* of the event is made; an event whose opaque is the recorded one never
\* terminates the process, whatever its epoch id.
C34_MismatchCheckedAfterEventApplied ==
    [][/\ OpaqueMismatch =>
             LET vb == StepEvent.VBucket
             IN  /\ pc' = "exited"
                 /\ \E r \in HandleEvent(StepEvent) :
                       /\ ~r.panic
                       /\ out' = r.out
                       /\ vbuckets' = r.vbuckets
                       /\ endpoints' = r.endpoints
                 /\ Len(out') = 1 /\ out'[1].vb = vb
                 /\ StepEvent.Opcode \in MutationOps =>
                       /\ vbuckets'[vb].seqno = StepEvent.Seqno
                       /\ vbuckets'[vb].mutationCount = vbuckets[vb].mutationCount + 1
                 /\ StepEvent.Opcode \in SeqnoOps \ MutationOps =>
                       vbuckets'[vb].seqno = StepEvent.Seqno
                 /\ StepEvent.Opcode = "DCP_SNAPSHOT" =>
                       /\ vbuckets'[vb].sshotCount = vbuckets[vb].sshotCount + 1
                       /\ out'[1].kind = "Snapshot"
       /\ (OnOpenShard /\ StepEvent.Opaque = vbuckets[StepEvent.VBucket].opaque) =>
             pc' # "exited"]_vars

\* A mutation with another opaque than the shard's has been counted, has set
\* the shard's sequence number and has been published, and the process has
\* exited.
C34_Witness ==
    /\ pc = "exited"
    /\ "mismatch with vbucket" \in errlog
    /\ 1 \in DOMAIN vbuckets
    /\ vbuckets[1].opaque = 1
    /\ vbuckets[1].mutationCount = 1
    /\ vbuckets[1].seqno = 2
    /\ Len(out) = 1
    /\ out[1].kind \in {"KeyVersions", "UpdateSeqno"}

\* The loop of run() has been left and the process is alive.
AfterLoop == pc \in {"defer", "fin", "setclosed", "stopped"}

\* C35: the step that handles Close leaves the loop, and the loop is never
\* entered again; from then on no message is taken from the data queue,
\* which changes only by a submitted message joining it, no shard's state
\* changes, and nothing is published but the StreamEnd broadcasts of the
\* step that follows the loop.
C35_NothingAppliedAfterClose ==
    [][/\ (CommandStep /\ StepCommand.cmd = "vwCmdClose") => pc' = "defer"
       /\ AfterLoop =>
             /\ AfterLoop'
             /\ vbuckets' = vbuckets
             /\ datach' # datach =>
                   /\ FeedReturns
                   /\ Len(datach') = Len(datach) + 1
                   /\ SubSeq(datach', 1, Len(datach)) = datach
             /\ out' # <<>> =>
                   /\ pc = "defer"
                   /\ \A i \in 1..Len(out') : out'[i].kind = "StreamEnd"]_vars

\* Close was handled while a mutation of the Open shard was in the data
\* queue: the worker has terminated, the mutation is still queued and was
\* not counted, and the shard has had its StreamEnd.
C35_Witness ==
    /\ pc = "stopped"
    /\ ~recovered
    /\ datach # <<>>
    /\ Head(datach).cmd = "vwCmdEvent"
    /\ Head(datach).m.Opcode = "DCP_MUTATION"
    /\ Head(datach).m.VBucket = 1
    /\ Head(datach).m.Opaque = 1
    /\ 1 \in DOMAIN vbuckets
    /\ vbuckets[1].mutationCount = 0
    /\ endCount[1] = 1

\* C36: the step that handles a control call of the supervisor takes nothing
\* from the data queue and changes no shard, and its reply is computed from
\* the shards as the events handled so far have left them: GetVbuckets lists
\* the Open shards, GetStatistics gives their counters and AddEngines their
\* sequence numbers; the messages that were in the data queue when the call
\* was made and have not been handled yet are still in the queue.
C36_ReplyReflectsHandledEventsOnly ==
    [][(CommandStep /\ StepCommand.from = "sup") =>
          LET reply == respch'["sup"]
          IN  /\ datach' = datach
              /\ vbuckets' = vbuckets
              /\ queuedBefore <= Len(datach)
              /\ StepCommand.cmd = "vwCmdGetVbuckets" =>
                    /\ Range(reply.vbs) = DOMAIN vbuckets
                    /\ Len(reply.vbs) = Cardinality(DOMAIN vbuckets)
              /\ StepCommand.cmd = "vwCmdGetStats" =>
                    /\ DOMAIN reply.stats = {Itoa(vb) : vb \in DOMAIN vbuckets}
                    /\ \A vb \in DOMAIN vbuckets :
                          /\ reply.stats[Itoa(vb)].mutations = vbuckets[vb].mutationCount
                          /\ reply.stats[Itoa(vb)].snapshots = vbuckets[vb].sshotCount
                          /\ reply.stats[Itoa(vb)].syncs = vbuckets[vb].syncCount
              /\ StepCommand.cmd = "vwCmdAddEngines" =>
                    /\ DOMAIN reply.seqnos = DOMAIN vbuckets
                    /\ \A vb \in DOMAIN vbuckets :
                          reply.seqnos[vb] = vbuckets[vb].seqno]_vars

\* The Event call of a mutation of the Open shard returned, AddEngines was
\* called after that and was handled before the mutation: the reply gives
\* the sequence number the shard had before the mutation, which is still in
\* the data queue.
C36_Witness ==
    /\ waiting["sup"]
    /\ respch["sup"].kind = "cseqnos"
    /\ queuedBefore = 1
    /\ Len(datach) = 1
    /\ Head(datach).cmd = "vwCmdEvent"
    /\ Head(datach).m.Opcode = "DCP_MUTATION"
    /\ Head(datach).m.VBucket = 1
    /\ Head(datach).m.Seqno = 2
    /\ 1 \in DOMAIN vbuckets
    /\ vbuckets[1].mutationCount = 0
    /\ 1 \in DOMAIN respch["sup"].seqnos
    /\ respch["sup"].seqnos[1] = vbuckets[1].seqno
    /\ vbuckets[1].seqno # 2

C38_NoEmptyCollectionOneMutationPath ==
    /\ [](\A cid \in DOMAIN engines : engines[cid] # {})
    /\ [][MutationStep =>
            LET viaEngines == /\ StepEvent.CollectionID \in DOMAIN engines
                              /\ engines[StepEvent.CollectionID] # {}
                              /\ \/ recovered' /\ ~recovered /\ out' = <<>>
                                 \/ /\ Len(out') = 1
                                    /\ out'[1].kind = "KeyVersions"
                                    /\ out'[1].xf # {}
                seqnoOnly  == /\ StepEvent.CollectionID \notin DOMAIN engines
                              /\ Len(out') = 1
                              /\ out'[1].kind = "UpdateSeqno"
                              /\ out'[1].xf = {}
            IN  viaEngines # seqnoOnly]_vars

\* Engines 1 and 2 of collection 1 were installed, Remove Engines took
\* engine 2 away, collection 1 stays in the map with engine 1, and a mutation
\* of collection 1 was then transformed by engine 1.
C38_Witness ==
    /\ nCmds = 2
    /\ engines = AddEnginesMap({1})
    /\ candidates = Addrs
    /\ endpoints = Addrs
    /\ waiting["sup"]
    /\ respch["sup"].kind = "nil"
    /\ Len(out) = 1
    /\ out[1].kind = "KeyVersions"
    /\ out[1].xf = {1}

\* The step handles a successful StreamBegin for a shard whose StreamEnd was
\* published since the shard was last opened.
ReopenStep ==
    /\ EventStep
    /\ StepEvent.Opcode = "DCP_STREAMREQ"
    /\ StepEvent.Status = "SUCCESS"
    /\ endCount[StepEvent.VBucket] >= 1

\* C39: a successful StreamBegin for a shard whose StreamEnd was handled
\* finds the shard not Open, is accepted and makes it Open with a state that
\* carries the event's correlation id, epoch id and sequence number and
\* whose three counters are zero, whatever sequence number the shard had
\* when it was ended; the other shards are as they were, one StreamBegin
\* signal is broadcast to the endpoint table, and the loop goes on.
C39_ShardReopensWithFreshState ==
    [][ReopenStep =>
          /\ StepEvent.VBucket \notin DOMAIN vbuckets
          /\ endedSeqno[StepEvent.VBucket] \in Seqnos
          /\ vbuckets' = MapPut(vbuckets, StepEvent.VBucket,
                                [vbno |-> StepEvent.VBucket,
                                 opaque |-> StepEvent.Opaque,
                                 vbuuid |-> StepEvent.VBuuid,
                                 seqno |-> StepEvent.Seqno,
                                 syncCount |-> 0, sshotCount |-> 0,
                                 mutationCount |-> 0])
          /\ Len(out') = 1
          /\ out'[1].kind = "StreamBegin"
          /\ out'[1].vb = StepEvent.VBucket
          /\ out'[1].sent = endpoints
          /\ endCount'[StepEvent.VBucket] = 0
          /\ pc' = "top"
          /\ UNCHANGED <<engines, recovered, finch, closed>>]_vars

\* Shard 1 was ended when its sequence number was 2 and was then opened
\* again by a StreamBegin with correlation id 2 and epoch id 2 that starts
\* at sequence number 1: it is Open with that state and with zero counters.
C39_Witness ==
    /\ endedSeqno[1] = 2
    /\ endCount[1] = 0
    /\ 1 \in DOMAIN vbuckets
    /\ vbuckets[1] = [vbno |-> 1, opaque |-> 2, vbuuid |-> 2, seqno |-> 1,
                      syncCount |-> 0, sshotCount |-> 0, mutationCount |-> 0]
    /\ Len(out) = 1
    /\ out[1].kind = "StreamBegin"
    /\ pc = "top"

\* The step merges the status of one more node into the status recorded for
\* its instance.
MergeStep ==
    /\ statuses # <<>>
    /\ Head(statuses).InstId \in DOMAIN statusMap
    /\ statuses' = Tail(statuses)

\* C40: the status an instance gets when the status of one more node is
\* merged into the status recorded for it is the status it would get with
\* the two merged the other way round, consolideStateStr(a, b) =
\* consolideStateStr(b, a), for every status string getIndexStatus produces.
C40_ConsolidatedStatusOrderIndependent ==
    [][MergeStep =>
          statusMap'[Head(statuses).InstId].Status =
             ConsolideStateStr(Head(statuses).Status,
                               statusMap[Head(statuses).InstId].Status)]_vars

=============================================================================
